---------------------------- MODULE Spec2Model ----------------------------
(***************************************************************************)
(* Model of profullstack/text-type-detection (src/src/index.js).           *)
(*                                                                         *)
(* A JavaScript string is a sequence of UTF-16 code units; every character *)
(* of the model is a code unit of the Basic Multilingual Plane, held as a  *)
(* natural number, so that the character ranges of the source's regular    *)
(* expressions are the ranges of the model.  A JavaScript number is an     *)
(* IEEE-754 double; the scores are sums of a few decimal literals, and the *)
(* double sums differ from the decimal sums (0.28 - 0.1 > 0.18), which     *)
(* decides comparisons.  A double of the scorers is held exactly, as a     *)
(* signed multiple of 2^-57 split into three 20-bit limbs.                 *)
(***************************************************************************)
EXTENDS Integers, Sequences, FiniteSets, TLC

(***************************************************************************)
(* Characters                                                              *)
(***************************************************************************)

\* The code units of the characters the source's patterns name.
Ch ==
  [ tab |-> 9, lf |-> 10, cr |-> 13, esc |-> 27, sp |-> 32, bang |-> 33,
    hash |-> 35, lparen |-> 40, rparen |-> 41, star |-> 42, plus |-> 43,
    minus |-> 45, dot |-> 46, slash |-> 47, colon |-> 58, semi |-> 59,
    lt |-> 60, eq |-> 61, gt |-> 62, quest |-> 63, lbrack |-> 91, m |-> 109,
    rbrack |-> 93, under |-> 95, tick |-> 96, lbrace |-> 123, bar |-> 124,
    rbrace |-> 125, tilde |-> 126 ]

\* ECMAScript LineTerminator: what . excludes and what ^ and $ of an m-flag
\* pattern anchor at.
IsLineTerminator(c) == c \in {10, 13, 8232, 8233}

\* ECMAScript \s (WhiteSpace and LineTerminator); also what trim() removes.
IsSpace(c) ==
  \/ c \in {9, 10, 11, 12, 13, 32, 160, 5760, 8232, 8233, 8239, 8287, 12288,
            65279}
  \/ c \in 8192..8202

\* \d
IsDigit(c) == c \in 48..57

\* [A-Za-z0-9]
IsAlnum(c) == c \in 48..57 \/ c \in 65..90 \/ c \in 97..122

\* \w
IsWord(c) == IsAlnum(c) \/ c = 95

\* Canonicalize of an i-flag pattern without the u flag, on the ASCII letters
\* the patterns name.
Lower(c) == IF c \in 65..90 THEN c + 32 ELSE c

BOX_DRAWING_RE(c) == c \in 9472..9599

BLOCK_ELEMS_RE(c) == c \in 9600..9631

BRAILLE_RE(c) == c \in 10240..10495

GEOM_RE(c) == c \in 9632..9727

\* '+|-_=/#\\*<>'
BORDER_CHARS == {43, 124, 45, 95, 61, 47, 35, 92, 42, 60, 62}

\* '`~!@#$%^&*()-_=+[]{}|\\;:\'",.<>/?'
LINE_SYMBOL_CHARS ==
  {96, 126, 33, 64, 35, 36, 37, 94, 38, 42, 40, 41, 45, 95, 61, 43, 91, 93,
   123, 125, 124, 92, 59, 58, 39, 34, 44, 46, 60, 62, 47, 63}

(***************************************************************************)
(* IEEE-754 doubles                                                        *)
(*                                                                         *)
(* Every double the scorers compute has magnitude below 4 and is a         *)
(* multiple of 2^-57 (the least literal of the source, 0.05, has an ulp of *)
(* 2^-57).  A double is [neg, mag], mag = <<h, m, l>> standing for         *)
(* (h * Limb^2 + m * Limb + l) * 2^-57.                                    *)
(***************************************************************************)

Limb == 2^20

MagLT(a, b) ==
  \/ a[1] < b[1]
  \/ a[1] = b[1] /\ a[2] < b[2]
  \/ a[1] = b[1] /\ a[2] = b[2] /\ a[3] < b[3]

MagAdd(a, b) ==
  LET l == a[3] + b[3]
      m == a[2] + b[2] + (l \div Limb)
      h == a[1] + b[1] + (m \div Limb)
  IN  <<h, m % Limb, l % Limb>>

\* a - b for a >= b
MagSub(a, b) ==
  LET l == a[3] - b[3]
      bl == IF l < 0 THEN 1 ELSE 0
      m == a[2] - b[2] - bl
      bm == IF m < 0 THEN 1 ELSE 0
  IN  <<a[1] - b[1] - bm, m + bm * Limb, l + bl * Limb>>

\* Round to nearest, ties to even, to 53 significant bits.  sticky tells that
\* the exact value lies strictly above a (by less than one unit).
RoundMag(a, sticky) ==
  LET k == CHOOSE j \in 0..7 : a[1] < 2^(13 + j) /\ (j = 0 \/ a[1] >= 2^(12 + j))
      u == 2^k
      r == a[3] % u
      down == <<a[1], a[2], a[3] - r>>
      up == MagAdd(down, <<0, 0, u>>)
      odd == (a[3] \div u) % 2 = 1
  IN  IF k = 0
      THEN a
      ELSE IF 2 * r > u \/ (2 * r = u /\ (sticky \/ odd)) THEN up ELSE down

Zero == [neg |-> FALSE, mag |-> <<0, 0, 0>>]

\* x + y
DAdd(x, y) ==
  IF x.neg = y.neg
  THEN [neg |-> x.neg, mag |-> RoundMag(MagAdd(x.mag, y.mag), FALSE)]
  ELSE IF x.mag = y.mag
       THEN Zero
       ELSE IF MagLT(x.mag, y.mag)
            THEN [neg |-> y.neg, mag |-> RoundMag(MagSub(y.mag, x.mag), FALSE)]
            ELSE [neg |-> x.neg, mag |-> RoundMag(MagSub(x.mag, y.mag), FALSE)]

\* x - y
DSub(x, y) == DAdd(x, [neg |-> ~y.neg, mag |-> y.mag])

\* x < y
DLT(x, y) ==
  IF x.neg /\ ~y.neg THEN x.mag # <<0, 0, 0>> \/ y.mag # <<0, 0, 0>>
  ELSE IF ~x.neg /\ y.neg THEN FALSE
  ELSE IF x.neg THEN MagLT(y.mag, x.mag)
  ELSE MagLT(x.mag, y.mag)

\* x >= y
DGE(x, y) == ~DLT(x, y)

\* x > y
DGT(x, y) == DLT(y, x)

\* Math.max(x, y)
DMax(x, y) == IF DLT(x, y) THEN y ELSE x

\* Math.min(x, y)
DMin(x, y) == IF DLT(y, x) THEN y ELSE x

\* The double a decimal literal of k thousandths denotes (0.15 is Lit(150)):
\* k * 2^57 / 1000 by long division, rounded to nearest.  The literals of the
\* source are 0, 1 and values from 0.05 to 0.35.
Lit(k) ==
  LET h0 == k * 2^17
      qh == h0 \div 1000
      r1 == h0 % 1000
      qm == (r1 * Limb) \div 1000
      r2 == (r1 * Limb) % 1000
      ql == (r2 * Limb) \div 1000
      r3 == (r2 * Limb) % 1000
      q == <<qh, qm, ql>>
  IN  [neg |-> FALSE,
       mag |-> IF qh < 2^13
               THEN IF 2 * r3 > 1000 THEN MagAdd(q, <<0, 0, 1>>) ELSE q
               ELSE RoundMag(q, r3 > 0)]

\* Math.max(0, x) without the upper clamp
ClampNoUpper(x) == DMax(Zero, x)

\* Math.max(0, Math.min(1, x))
Clamp01(x) == DMax(Zero, DMin(Lit(1000), x))

\* Number(x.toFixed(3)) for 0 <= x < 8, in thousandths: the integer n for
\* which n / 1000 - x is closest to zero, the larger n of two.
ToFixed3(x) ==
  LET l == x.mag[3] * 1000
      m == x.mag[2] * 1000 + (l \div Limb)
      h == x.mag[1] * 1000 + (m \div Limb)
  IN  (h + 2^16) \div 2^17

(***************************************************************************)
(* Strings.  Positions are 1-based; a match is reported by the position of *)
(* its last character, NoMatch when there is none.                         *)
(***************************************************************************)

NoMatch == 0 - 1

\* s[i], or NoMatch beyond either end of s (no class contains NoMatch)
At(s, i) == IF i >= 1 /\ i <= Len(s) THEN s[i] ELSE NoMatch

\* ^ of a pattern with the m flag
LineStart(s, i) == i = 1 \/ (i > 1 /\ i <= Len(s) + 1 /\ IsLineTerminator(s[i - 1]))

\* $ of a pattern with the m flag
LineEnd(s, j) == j = Len(s) + 1 \/ (j >= 1 /\ j <= Len(s) /\ IsLineTerminator(s[j]))

\* the least and the greatest element of a non-empty set of integers
MinOf(S) == CHOOSE x \in S : \A y \in S : x <= y

MaxOf(S) == CHOOSE x \in S : \A y \in S : x >= y

\* The last position of the longest run of TRUE in b that starts at p (p - 1
\* when the run is empty): what a greedy P* consumes from p, b[pos] telling
\* whether the character at pos is of class P.
SpanEnd(b, p) ==
  LET stops == {j \in p..Len(b) : ~b[j]}
  IN  IF stops = {} THEN (IF p > Len(b) THEN p - 1 ELSE Len(b)) ELSE MinOf(stops) - 1

\* where the white space of a string is
SpaceAt(s) == [pos \in DOMAIN s |-> IsSpace(s[pos])]

\* The first position at or after p whose character is c, NoMatch if none.
Find(s, p, c) ==
  LET at == {j \in p..Len(s) : j >= 1 /\ s[j] = c}
  IN  IF at = {} THEN NoMatch ELSE MinOf(at)

\* s holds the characters of w at p
HasAt(s, p, w) ==
  /\ p >= 1
  /\ p + Len(w) - 1 <= Len(s)
  /\ \A k \in 1..Len(w) : s[p + k - 1] = w[k]

\* s holds the characters of w at p, letter case ignored (i flag)
HasAtI(s, p, w) ==
  /\ p >= 1
  /\ p + Len(w) - 1 <= Len(s)
  /\ \A k \in 1..Len(w) : Lower(s[p + k - 1]) = w[k]

\* The first position at or after p where w starts, NoMatch if none.
FindSeq(s, p, w) ==
  LET at == {j \in p..Len(s) : HasAt(s, j, w)}
  IN  IF at = {} THEN NoMatch ELSE MinOf(at)

\* String.prototype.trim
Trim(s) ==
  LET ns == {i \in 1..Len(s) : ~IsSpace(s[i])}
  IN  IF ns = {} THEN <<>> ELSE SubSeq(s, MinOf(ns), MaxOf(ns))

\* text.replace(/\r\n?/g, '\n')
Normalize(s) ==
  LET sub == [i \in 1..Len(s) |->
                IF s[i] = Ch.lf /\ At(s, i - 1) = Ch.cr THEN NoMatch
                ELSE IF s[i] = Ch.cr THEN Ch.lf ELSE s[i]]
  IN  SelectSeq(sub, LAMBDA c : c # NoMatch)

\* the lines of s between the separators \n; cr tells whether a \r right
\* before a \n belongs to the separator
SplitAt(s, cr) ==
  LET seps == SelectSeq([j \in 1..Len(s) |-> j], LAMBDA j : s[j] = Ch.lf)
      n == Len(seps)
      to(k) ==
        IF k = n + 1 THEN Len(s)
        ELSE IF cr /\ At(s, seps[k] - 1) = Ch.cr THEN seps[k] - 2 ELSE seps[k] - 1
  IN  [k \in 1..(n + 1) |-> SubSeq(s, IF k = 1 THEN 1 ELSE seps[k - 1] + 1, to(k))]

\* s.split('\n')
SplitLF(s) == SplitAt(s, FALSE)

\* s.split(/\r?\n/)
SplitCRLF(s) == SplitAt(s, TRUE)

(***************************************************************************)
(* The patterns of MD (src/src/index.js:15-29).  XAt(s, i) is the last     *)
(* position of the match of pattern X that starts at position i of s, as   *)
(* the backtracking matcher finds it, or NoMatch.                          *)
(***************************************************************************)

Fence == <<96, 96, 96>>

TildeFence == <<126, 126, 126>>

\* heading: /^(#{1,6})\s+\S+/m
headingAt(s, i) ==
  LET h == SpanEnd([pos \in DOMAIN s |-> LET c == s[pos] IN c = Ch.hash], i)
      w == SpanEnd(SpaceAt(s), h + 1)
      t == SpanEnd([pos \in DOMAIN s |-> LET c == s[pos] IN ~IsSpace(c)], w + 1)
  IN  IF LineStart(s, i) /\ h >= i /\ h - i + 1 <= 6 /\ w > h /\ t > w
      THEN t ELSE NoMatch

\* setext: /^(.+)\n(=+|-+)\s*$/m
setextAt(s, i) ==
  LET d == SpanEnd([pos \in DOMAIN s |-> LET c == s[pos] IN ~IsLineTerminator(c)], i)
      u == At(s, d + 2)
      r == SpanEnd([pos \in DOMAIN s |-> LET c == s[pos] IN c = u], d + 2)
      w == SpanEnd(SpaceAt(s), r + 1)
      ends == {j \in r..w : LineEnd(s, j + 1)}
  IN  IF /\ LineStart(s, i) /\ d >= i /\ At(s, d + 1) = Ch.lf
         /\ u \in {Ch.eq, Ch.minus} /\ ends # {}
      THEN MaxOf(ends)
      ELSE NoMatch

\* list: /^(?:\s{0,3}[-*+]\s+|\s{0,3}\d+\.\s+)/m
listAt(s, i) ==
  LET b == SpanEnd(SpaceAt(s), i) + 1
      d == SpanEnd([pos \in DOMAIN s |-> IsDigit(s[pos])], b)
  IN  IF ~LineStart(s, i) \/ b - i > 3 THEN NoMatch
      ELSE IF At(s, b) \in {Ch.minus, Ch.star, Ch.plus} /\ IsSpace(At(s, b + 1))
           THEN SpanEnd(SpaceAt(s), b + 1)
           ELSE IF d >= b /\ At(s, d + 1) = Ch.dot /\ IsSpace(At(s, d + 2))
                THEN SpanEnd(SpaceAt(s), d + 2)
                ELSE NoMatch

\* blockquote: /^>\s+/m
blockquoteAt(s, i) ==
  IF LineStart(s, i) /\ At(s, i) = Ch.gt /\ IsSpace(At(s, i + 1))
  THEN SpanEnd(SpaceAt(s), i + 1) ELSE NoMatch

\* fenced: /```[\s\S]*?```|~~~[\s\S]*?~~~/m
fencedAt(s, i) ==
  LET f == IF HasAt(s, i, Fence) THEN Fence ELSE TildeFence
      j == FindSeq(s, i + 3, f)
  IN  IF HasAt(s, i, f) /\ j # NoMatch THEN j + 2 ELSE NoMatch

\* inlineCode: /(^|[^`])`[^`]+`/m
inlineCodeAt(s, i) ==
  LET p == IF At(s, i) = Ch.tick THEN i ELSE i + 1
      r == SpanEnd([pos \in DOMAIN s |-> LET c == s[pos] IN c # Ch.tick], p + 1)
  IN  IF /\ i <= Len(s)
         /\ At(s, i) = Ch.tick => LineStart(s, i)
         /\ At(s, p) = Ch.tick /\ r >= p + 1 /\ At(s, r + 1) = Ch.tick
      THEN r + 1 ELSE NoMatch

\* the tail \]\([^)]+\) of link and image, c the position of the ]
LinkTail(s, c) ==
  LET d == Find(s, c + 2, Ch.rparen)
  IN  IF c # NoMatch /\ At(s, c + 1) = Ch.lparen /\ d # NoMatch /\ d > c + 2
      THEN d ELSE NoMatch

\* link: /\[[^\]]+\]\([^)]+\)/m
linkAt(s, i) ==
  LET c == Find(s, i + 1, Ch.rbrack)
  IN  IF At(s, i) = Ch.lbrack /\ c > i + 1 THEN LinkTail(s, c) ELSE NoMatch

\* image: /!\[[^\]]*\]\([^)]+\)/m
imageAt(s, i) ==
  IF At(s, i) = Ch.bang /\ At(s, i + 1) = Ch.lbrack
  THEN LinkTail(s, Find(s, i + 2, Ch.rbrack)) ELSE NoMatch

\* tableRow: /^\|?[^|\n]+\|[^|\n]+/m
tableRowAt(s, i) ==
  LET p == IF At(s, i) = Ch.bar THEN i + 1 ELSE i
      r == SpanEnd([pos \in DOMAIN s |-> LET c == s[pos] IN c \notin {Ch.bar, Ch.lf}], p)
      t == SpanEnd([pos \in DOMAIN s |-> LET c == s[pos] IN c \notin {Ch.bar, Ch.lf}], r + 2)
  IN  IF LineStart(s, i) /\ r >= p /\ At(s, r + 1) = Ch.bar /\ t >= r + 2
      THEN t ELSE NoMatch

\* (?:c\s?){3,}$ from p on, k groups already matched: greedy, \s? taken
\* first, then not taken, then the repetition ended
RECURSIVE HrEnd(_, _, _, _)
HrEnd(s, c, p, k) ==
  LET stop == IF k >= 3 /\ LineEnd(s, p) THEN p - 1 ELSE NoMatch
      a == IF IsSpace(At(s, p + 1)) THEN HrEnd(s, c, p + 2, k + 1) ELSE NoMatch
      b == HrEnd(s, c, p + 1, k + 1)
  IN  IF At(s, p) # c THEN stop
      ELSE IF a # NoMatch THEN a
      ELSE IF b # NoMatch THEN b
      ELSE stop

\* hr: /^(?:-\s?){3,}$|^(?:\*\s?){3,}$|^(?:_\s?){3,}$/m
hrAt(s, i) ==
  IF LineStart(s, i) /\ At(s, i) \in {Ch.minus, Ch.star, Ch.under}
  THEN HrEnd(s, s[i], i, 0) ELSE NoMatch

\* emphasis: /(^|[^\w*])\*{1,2}[^*\n]+\*{1,2}(?!\*)/m
emphasisAt(s, i) ==
  LET p == IF At(s, i) = Ch.star THEN i ELSE i + 1
      a == SpanEnd([pos \in DOMAIN s |-> LET c == s[pos] IN c = Ch.star], p)
      r == SpanEnd([pos \in DOMAIN s |-> LET c == s[pos] IN c \notin {Ch.star, Ch.lf}], a + 1)
      b == SpanEnd([pos \in DOMAIN s |-> LET c == s[pos] IN c = Ch.star], r + 1)
  IN  IF /\ i <= Len(s)
         /\ IF At(s, i) = Ch.star THEN LineStart(s, i) ELSE ~IsWord(s[i])
         /\ a - p + 1 \in {1, 2} /\ r > a /\ b - r \in {1, 2}
      THEN b ELSE NoMatch

\* div|span|br|img|a|p|h[1-6]|ul|ol|li|code|pre
HtmlTags ==
  {
    <<100, 105, 118>>,  \* div
    <<115, 112, 97, 110>>,  \* span
    <<98, 114>>,  \* br
    <<105, 109, 103>>,  \* img
    <<97>>,  \* a
    <<112>>,  \* p
    <<104, 49>>,  \* h1
    <<104, 50>>,  \* h2
    <<104, 51>>,  \* h3
    <<104, 52>>,  \* h4
    <<104, 53>>,  \* h5
    <<104, 54>>,  \* h6
    <<117, 108>>,  \* ul
    <<111, 108>>,  \* ol
    <<108, 105>>,  \* li
    <<99, 111, 100, 101>>,  \* code
    <<112, 114, 101>>   \* pre
  }

\* html: /<\/?(?:div|span|br|img|a|p|h[1-6]|ul|ol|li|code|pre)[^>]*>/i
htmlAt(s, i) ==
  LET t == IF At(s, i + 1) = Ch.slash THEN i + 2 ELSE i + 1
  IN  IF At(s, i) = Ch.lt /\ \E w \in HtmlTags : HasAtI(s, t, w)
      THEN Find(s, t + 1, Ch.gt) ELSE NoMatch

\* frontMatter: /^---\n[\s\S]*?\n---\n/m
frontMatterAt(s, i) ==
  LET j == FindSeq(s, i + 4, <<10, 45, 45, 45, 10>>)
  IN  IF LineStart(s, i) /\ HasAt(s, i, <<45, 45, 45, 10>>) /\ j # NoMatch
      THEN j + 4 ELSE NoMatch

\* ANSI_RE: /\x1B\[[0-9;]*m/
ansiAt(s, i) ==
  LET e == SpanEnd([pos \in DOMAIN s |-> LET c == s[pos] IN IsDigit(c) \/ c = Ch.semi], i + 2)
  IN  IF At(s, i) = Ch.esc /\ At(s, i + 1) = Ch.lbrack /\ At(s, e + 1) = Ch.m
      THEN e + 1 ELSE NoMatch

(***************************************************************************)
(* RegExp objects.  The module-level patterns are objects that live across *)
(* calls; test() of a pattern with the g or y flag starts at its lastIndex *)
(* and moves it, test() of any other pattern starts at 0 and leaves        *)
(* lastIndex alone.                                                        *)
(***************************************************************************)

\* Object.entries(MD), in insertion order
MDNames ==
  <<"heading", "setext", "list", "blockquote", "fenced", "inlineCode", "link",
    "image", "tableRow", "hr", "emphasis", "html", "frontMatter">>

RegExpNames ==
  {"BOX_DRAWING_RE", "BLOCK_ELEMS_RE", "BRAILLE_RE", "GEOM_RE", "ANSI_RE"}
    \cup {MDNames[k] : k \in 1..Len(MDNames)}

\* the flags with a g added to the heading pattern
FlagsGlobal ==
  [re \in RegExpNames |->
     IF re \in {"BOX_DRAWING_RE", "BLOCK_ELEMS_RE", "BRAILLE_RE", "GEOM_RE",
                "ANSI_RE"}
     THEN {}
     ELSE IF re = "html" THEN {"i"}
     ELSE IF re = "heading" THEN {"g", "m"} ELSE {"m"}]

\* the flags of each pattern, as written after its closing slash
Flags ==
  [re \in RegExpNames |->
     IF re \in {"BOX_DRAWING_RE", "BLOCK_ELEMS_RE", "BRAILLE_RE", "GEOM_RE",
                "ANSI_RE"}
     THEN {}
     ELSE IF re = "html" THEN {"i"} ELSE {"m"}]

MatchAt(re, s, i) ==
  CASE re = "heading" -> headingAt(s, i)
    [] re = "setext" -> setextAt(s, i)
    [] re = "list" -> listAt(s, i)
    [] re = "blockquote" -> blockquoteAt(s, i)
    [] re = "fenced" -> fencedAt(s, i)
    [] re = "inlineCode" -> inlineCodeAt(s, i)
    [] re = "link" -> linkAt(s, i)
    [] re = "image" -> imageAt(s, i)
    [] re = "tableRow" -> tableRowAt(s, i)
    [] re = "hr" -> hrAt(s, i)
    [] re = "emphasis" -> emphasisAt(s, i)
    [] re = "html" -> htmlAt(s, i)
    [] re = "frontMatter" -> frontMatterAt(s, i)
    [] re = "ANSI_RE" -> ansiAt(s, i)
    [] re = "BOX_DRAWING_RE" -> IF BOX_DRAWING_RE(At(s, i)) THEN i ELSE NoMatch
    [] re = "BLOCK_ELEMS_RE" -> IF BLOCK_ELEMS_RE(At(s, i)) THEN i ELSE NoMatch
    [] re = "BRAILLE_RE" -> IF BRAILLE_RE(At(s, i)) THEN i ELSE NoMatch
    [] re = "GEOM_RE" -> IF GEOM_RE(At(s, i)) THEN i ELSE NoMatch

\* the end of the leftmost of the matches that start at `starts', NoMatch
\* if there is none
ExecAmong(re, s, starts) ==
  IF starts = {} THEN NoMatch ELSE MatchAt(re, s, MinOf(starts))

\* RegExpBuiltinExec: the end of the leftmost match that starts after the
\* first `from' characters, NoMatch if there is none
Exec(re, s, from) ==
  ExecAmong(re, s, {i \in (from + 1)..Len(s) : MatchAt(re, s, i) # NoMatch})

\* a pattern with the g or y flag matches from its lastIndex and moves it
Stateful(re) == Flags[re] \cap {"g", "y"} # {}

\* what test() returns and leaves when exec() ended at e
TestResult(re, li, e) ==
  [found |-> e # NoMatch,
   li |-> IF Stateful(re)
          THEN [li EXCEPT ![re] = IF e = NoMatch THEN 0 ELSE e]
          ELSE li]

\* re.test(s) with the lastIndex values li: whether it matched, and the
\* lastIndex values it leaves
RegExpTest(re, s, li) ==
  TestResult(re, li, Exec(re, s, IF Stateful(re) THEN li[re] ELSE 0))

RECURSIVE AnyTest(_, _, _)

\* the rest of res[1].test(s) || ..., t being what res[1].test(s) gave
OrElse(res, s, t) == IF t.found THEN t ELSE AnyTest(Tail(res), s, t.li)

\* res[1].test(s) || res[2].test(s) || ..., evaluated left to right up to the
\* first that matches
AnyTest(res, s, li) ==
  IF res = <<>> THEN [found |-> FALSE, li |-> li]
  ELSE OrElse(res, s, RegExpTest(Head(res), s, li))

(***************************************************************************)
(* asciiArtScore (src/src/index.js:36-145)                                 *)
(***************************************************************************)

\* the sum of a sequence of numbers
Sum(q) ==
  LET sum[k \in 0..Len(q)] == IF k = 0 THEN 0 ELSE sum[k - 1] + q[k]
  IN  sum[Len(q)]

\* the number of TRUE elements of a sequence of Booleans
Count(q) == Cardinality({k \in 1..Len(q) : q[k]})

\* the trimmed line t counts as a border line
IsBorderLine(t) ==
  LET allSame == \A k \in 1..Len(t) : t[k] = t[1]
      mostlyBorder == 10 * Count([k \in DOMAIN t |-> t[k] \in BORDER_CHARS]) >= 8 * Len(t)
  IN  /\ Len(t) >= 3
      /\ t[1] \in BORDER_CHARS
      /\ t[Len(t)] \in BORDER_CHARS
      /\ (mostlyBorder \/ allSame)

\* /(.)\1{5,}/.test(line): a run of six, one repeat too many
HasRunOfSix(line) ==
  \E i \in 1..(Len(line) - 5) :
    /\ ~IsLineTerminator(line[i])
    /\ \A k \in 1..5 : line[i + k] = line[i]

\* /(.)\1{4,}/.test(line)
HasRun(line) ==
  \E i \in 1..(Len(line) - 4) :
    /\ ~IsLineTerminator(line[i])
    /\ \A k \in 1..4 : line[i + k] = line[i]

\* /\s+$/.test(line) && t.length
HasTrailing(line) ==
  Len(line) > 0 /\ IsSpace(line[Len(line)]) /\ Trim(line) # <<>>

Undefined == <<>>

Some(v) == <<v>>

\* the counters of the loop over the lines
LineStats(lines) ==
  LET n == Len(lines)
      sumLen == Sum([k \in DOMAIN lines |-> Len(lines[k])])
  IN  [n |-> n,
       sumLen |-> sumLen,
       sqDev |-> Sum([k \in DOMAIN lines |->
                       (n * Len(lines[k]) - sumLen) * (n * Len(lines[k]) - sumLen)]),
       wide |-> Count([k \in DOMAIN lines |-> Len(lines[k]) >= 20]),
       alnum |-> Sum([k \in DOMAIN lines |->
                       Count([j \in DOMAIN lines[k] |-> IsAlnum(lines[k][j])])]),
       sym |-> Sum([k \in DOMAIN lines |->
                     Count([j \in DOMAIN lines[k] |-> lines[k][j] \in LINE_SYMBOL_CHARS])]),
       borders |-> Count([k \in DOMAIN lines |-> IsBorderLine(Trim(lines[k]))]),
       runs |-> Count([k \in DOMAIN lines |-> HasRun(lines[k])]),
       trailing |-> Count([k \in DOMAIN lines |-> HasTrailing(lines[k])])]

\* the nine conditions in the order tested, each with its weight in
\* thousandths and its reason; st the counters, total = sumLen
Conditions(st, hasUnicodeArt, hasAnsi) ==
  << [on |-> 10 * st.wide >= 7 * st.n, w |-> 150, tag |-> "many_wide_lines"],
     [on |-> /\ st.sumLen >= 20 * st.n
             /\ st.sqDev <= (121 * st.n * st.sumLen * st.sumLen) \div 2500,
      w |-> 200, tag |-> "consistent_width"],
     [on |-> /\ st.sumLen > 0
             /\ 100 * st.sym >= 18 * st.sumLen
             /\ 100 * st.alnum <= 55 * st.sumLen,
      w |-> 200, tag |-> "symbol_heavy_low_alpha"],
     [on |-> st.runs >= (IF st.n \div 20 > 2 THEN st.n \div 20 ELSE 2),
      w |-> 150, tag |-> "long_same_char_runs"],
     [on |-> 100 * st.borders >= 8 * st.n, w |-> 100, tag |-> "border_like_lines"],
     [on |-> 10 * st.trailing >= st.n, w |-> 70, tag |-> "trailing_spaces"],
     [on |-> hasAnsi, w |-> 120, tag |-> "ansi_sequences"],
     [on |-> hasUnicodeArt, w |-> 280, tag |-> "unicode_art_chars"],
     [on |-> st.sumLen > 0 /\ 100 * st.alnum > 75 * st.sumLen,
      w |-> 0 - 100, tag |-> "very_text_heavy"] >>

\* score and reasons after the conditions, a reason pushed only where a
\* weight is added
WeighAddedOnly(conds) ==
  LET acc[k \in 0..Len(conds)] ==
        IF k = 0 THEN [score |-> Zero, reasons |-> <<>>]
        ELSE IF ~conds[k].on THEN acc[k - 1]
        ELSE IF conds[k].w < 0
        THEN [score |-> DSub(acc[k - 1].score, Lit(0 - conds[k].w)),
              reasons |-> acc[k - 1].reasons]
        ELSE [score |-> DAdd(acc[k - 1].score, Lit(conds[k].w)),
              reasons |-> Append(acc[k - 1].reasons, conds[k].tag)]
  IN  acc[Len(conds)]

\* score and reasons after the conditions, before the clamp
Weigh(conds) ==
  LET acc[k \in 0..Len(conds)] ==
        IF k = 0 THEN [score |-> Zero, reasons |-> <<>>]
        ELSE IF ~conds[k].on THEN acc[k - 1]
        ELSE [score |-> IF conds[k].w < 0
                        THEN DSub(acc[k - 1].score, Lit(0 - conds[k].w))
                        ELSE DAdd(acc[k - 1].score, Lit(conds[k].w)),
              reasons |-> Append(acc[k - 1].reasons, conds[k].tag)]
  IN  acc[Len(conds)]

\* the object asciiArtScore returns for three lines or more
Scored(st, sum, li) ==
  [score |-> Clamp01(sum.score),
   reasons |-> sum.reasons,
   stats |-> Some([lines |-> st.n, mean |-> <<st.sumLen, st.n>>,
                   variance |-> <<st.sqDev, st.n * st.n * st.n>>,
                   symD |-> <<st.sym, IF st.sumLen = 0 THEN 1 ELSE st.sumLen>>,
                   alpha |-> <<st.alnum, IF st.sumLen = 0 THEN 1 ELSE st.sumLen>>]),
   li |-> li]

\* asciiArtScore from hasAnsi on: uni and ansi are what the pattern tests gave
AfterTests(st, uni, ansi) ==
  Scored(st, Weigh(Conditions(st, uni.found, ansi.found)), ansi.li)

\* asciiArtScore from hasUnicodeArt on
AfterLoop(raw, st, uni) == AfterTests(st, uni, RegExpTest("ANSI_RE", raw, uni.li))

\* asciiArtScore of the normalised text, were two lines enough
ScoreLinesFromTwo(raw, lines, li) ==
  IF Len(lines) < 2
  THEN [score |-> Zero, reasons |-> <<"too_few_lines">>, stats |-> Undefined,
        li |-> li]
  ELSE AfterLoop(raw, LineStats(lines),
                 AnyTest(<<"BOX_DRAWING_RE", "BLOCK_ELEMS_RE", "BRAILLE_RE", "GEOM_RE">>,
                         raw, li))

\* asciiArtScore of the normalised text
ScoreLines(raw, lines, li) ==
  IF Len(lines) < 3
  THEN [score |-> Zero, reasons |-> <<"too_few_lines">>, stats |-> Undefined,
        li |-> li]
  ELSE AfterLoop(raw, LineStats(lines),
                 AnyTest(<<"BOX_DRAWING_RE", "BLOCK_ELEMS_RE", "BRAILLE_RE", "GEOM_RE">>,
                         raw, li))

\* asciiArtScore of the text after raw = text.replace(/\r\n?/g, '\n')
ScoreRaw(raw, li) == ScoreLines(raw, SplitLF(raw), li)

\* asciiArtScore(text), scores as doubles, ratios as pairs of integers; li
\* the lastIndex values before and after
asciiArtScore(text, li) == ScoreRaw(Normalize(text), li)

(***************************************************************************)
(* markdownScore (src/src/index.js:152-203)                                *)
(***************************************************************************)

\* the weights with heading moved to the 0.12 group
MdWeightHeadingLow(name) ==
  IF name \in {"fenced", "list", "link", "tableRow"} THEN 180
  ELSE IF name \in {"heading", "image", "blockquote", "setext", "frontMatter"}
       THEN 120
  ELSE IF name \in {"inlineCode", "hr", "emphasis"} THEN 80
  ELSE IF name = "html" THEN 50
  ELSE 0

\* the weight the if-chain of markdownScore adds for a feature, thousandths
MdWeight(name) ==
  IF name \in {"fenced", "heading", "list", "link", "tableRow"} THEN 180
  ELSE IF name \in {"image", "blockquote", "setext", "frontMatter"} THEN 120
  ELSE IF name \in {"inlineCode", "hr", "emphasis"} THEN 80
  ELSE IF name = "html" THEN 50
  ELSE 0

\* one turn of the loop over the features: prev the hits, score and
\* lastIndex values so far, t what re.test(raw) gave
Feature(name, prev, t) ==
  IF t.found
  THEN [hits |-> Append(prev.hits, name),
        score |-> IF MdWeight(name) > 0
                  THEN DAdd(prev.score, Lit(MdWeight(name)))
                  ELSE prev.score,
        li |-> t.li]
  ELSE [prev EXCEPT !.li = t.li]

\* the loop over the features from the k-th on
RECURSIVE Features(_, _, _)
Features(raw, k, prev) ==
  IF k > Len(MDNames) THEN prev
  ELSE Features(raw, k + 1,
                Feature(MDNames[k], prev, RegExpTest(MDNames[k], raw, prev.li)))

\* the score after the long-line penalty
LongLinePenalty(score, lines) ==
  IF Count([k \in DOMAIN lines |-> Len(lines[k]) > 140]) >= 2
  THEN DSub(score, Lit(100))
  ELSE score

\* the score after the Unicode-art penalty, clamped
ArtPenalty(score, hasArt) ==
  Clamp01(IF hasArt THEN DSub(score, Lit(120)) ELSE score)

\* the object markdownScore returns
Penalised(raw, sum, uni) ==
  [score |-> ArtPenalty(LongLinePenalty(sum.score, SplitLF(raw)), uni.found),
   reasons |-> sum.hits,
   li |-> uni.li]

\* markdownScore after the loop over the features, were the geometric
\* shapes among the art characters that cost 0.12
AfterFeaturesGeom(raw, sum) ==
  Penalised(raw, sum,
            AnyTest(<<"BOX_DRAWING_RE", "BLOCK_ELEMS_RE", "BRAILLE_RE", "GEOM_RE">>,
                    raw, sum.li))

\* markdownScore after the loop over the features
AfterFeatures(raw, sum) ==
  Penalised(raw, sum,
            AnyTest(<<"BOX_DRAWING_RE", "BLOCK_ELEMS_RE", "BRAILLE_RE">>, raw, sum.li))

\* markdownScore of the text after raw = text.replace(/\r\n?/g, '\n')
MdScoreRaw(raw, li) ==
  AfterFeatures(raw, Features(raw, 1, [hits |-> <<>>, score |-> Zero, li |-> li]))

\* markdownScore(text), the score as a double; li the lastIndex values
\* before and after
markdownScore(text, li) == MdScoreRaw(Normalize(text), li)

(***************************************************************************)
(* codeLikePenalty (src/src/index.js:210-232)                              *)
(***************************************************************************)

\* function|class|import|export|const|let|var|def|if|for|while
Keywords ==
  {
    <<102, 117, 110, 99, 116, 105, 111, 110>>,  \* function
    <<99, 108, 97, 115, 115>>,  \* class
    <<105, 109, 112, 111, 114, 116>>,  \* import
    <<101, 120, 112, 111, 114, 116>>,  \* export
    <<99, 111, 110, 115, 116>>,  \* const
    <<108, 101, 116>>,  \* let
    <<118, 97, 114>>,  \* var
    <<100, 101, 102>>,  \* def
    <<105, 102>>,  \* if
    <<102, 111, 114>>,  \* for
    <<119, 104, 105, 108, 101>>   \* while
  }

\* /^(?:\s{2,}|\t)/
HintIndent(l) == (IsSpace(At(l, 1)) /\ IsSpace(At(l, 2))) \/ At(l, 1) = Ch.tab

\* /;\s*$/
HintSemicolon(l) ==
  \E i \in 1..Len(l) : l[i] = Ch.semi /\ SpanEnd(SpaceAt(l), i + 1) = Len(l)

\* /\b(function|class|import|export|const|let|var|def|if|for|while)\b/
HintKeyword(l) ==
  \E i \in 1..Len(l) : \E w \in Keywords :
    HasAt(l, i, w) /\ ~IsWord(At(l, i - 1)) /\ ~IsWord(At(l, i + Len(w)))

\* /[{}`]/
HintBrace(l) == \E i \in 1..Len(l) : l[i] \in {Ch.lbrace, Ch.rbrace, Ch.tick}

\* /\bException:|\bat\s+[\w.]+ \([\w/.:-]+\)/
HintTrace(l) ==
  \E i \in 1..Len(l) :
    /\ ~IsWord(At(l, i - 1))
    /\ \/ HasAt(l, i, <<69, 120, 99, 101, 112, 116, 105, 111, 110, 58>>)
       \/ LET w == SpanEnd(SpaceAt(l), i + 2)
              d == SpanEnd([pos \in DOMAIN l |-> LET c == l[pos] IN IsWord(c) \/ c = Ch.dot], w + 1)
              e == SpanEnd([pos \in DOMAIN l |->
                              IsWord(l[pos]) \/ l[pos] \in {Ch.slash, Ch.dot, Ch.colon, Ch.minus}],
                           d + 3)
          IN  /\ HasAt(l, i, <<97, 116>>)
              /\ w >= i + 2 /\ d > w
              /\ At(l, d + 1) = Ch.sp /\ At(l, d + 2) = Ch.lparen
              /\ e >= d + 3 /\ At(l, e + 1) = Ch.rparen

\* codeHints.some((re) => re.test(l))
IsCodeLine(l) ==
  HintIndent(l) \/ HintSemicolon(l) \/ HintKeyword(l) \/ HintBrace(l) \/ HintTrace(l)

\* the penalty given only above the threshold, not at it
codeLikePenaltyAbove(text) ==
  LET lines == SplitCRLF(text)
      hits == Count([k \in DOMAIN lines |-> IsCodeLine(lines[k])])
      least == IF (8 * Len(lines)) \div 100 > 3 THEN (8 * Len(lines)) \div 100 ELSE 3
  IN  IF hits > least THEN 150 ELSE 0

\* the penalty, in thousandths
codeLikePenalty(text) ==
  LET lines == SplitCRLF(text)
      hits == Count([k \in DOMAIN lines |-> IsCodeLine(lines[k])])
      least == IF (8 * Len(lines)) \div 100 > 3 THEN (8 * Len(lines)) \div 100 ELSE 3
  IN  IF hits >= least THEN 150 ELSE 0

(***************************************************************************)
(* detectTextFormat (src/src/index.js:239-287)                             *)
(***************************************************************************)

\* /```[\s\S]*?```|~~~[\s\S]*?~~~/m.test(text)
HasFence(text) == \E i \in 1..Len(text) : fencedAt(text, i) # NoMatch

\* /^\s*<\?xml/i.test(text)
IsXml(text) ==
  HasAtI(text, SpanEnd(SpaceAt(text), 1) + 1, <<Ch.lt, Ch.quest, 120, Ch.m, 108>>)

\* /^\s*<[^>]+>/.test(text)
IsHtml(text) ==
  LET o == SpanEnd(SpaceAt(text), 1) + 1
  IN  At(text, o) = Ch.lt /\ Find(text, o + 1, Ch.gt) > o + 1

\* /^\s*[{[]/m.test(text): the closing bracket not asked for
IsJsonOpenOnly(text) ==
  \E i \in 1..Len(text) :
    /\ LineStart(text, i)
    /\ At(text, SpanEnd(SpaceAt(text), i) + 1) \in {Ch.lbrace, Ch.lbrack}

\* /^\s*[{[][\s\S]*[\]}]\s*$/m.test(text)
IsJson(text) ==
  \E i \in 1..Len(text) :
    /\ LineStart(text, i)
    /\ LET o == SpanEnd(SpaceAt(text), i) + 1
       IN  /\ At(text, o) \in {Ch.lbrace, Ch.lbrack}
           /\ \E e \in (o + 1)..Len(text) :
                /\ text[e] \in {Ch.rbrack, Ch.rbrace}
                /\ \E j \in e..SpanEnd(SpaceAt(text), e + 1) : LineEnd(text, j + 1)

\* typeof text !== 'string' || !text, the trim forgotten
IsEmptyUntrimmed(arg) == arg.type # "string" \/ arg.str = <<>>

\* typeof text !== 'string' || !text.trim()
IsEmptyInput(arg) == arg.type # "string" \/ Trim(arg.str) = <<>>

\* the early return of detectTextFormat
EmptyResult ==
  [text_format |-> "plain", asciiArt |-> 0, markdown |-> 0,
   reasons |-> [ascii |-> <<"empty">>, markdown |-> <<>>,
                codePenaltyApplied |-> Undefined],
   stats |-> Undefined]

\* asciiFinal: Math.max(0, a.score - codePenalty)
AsciiFinal(as, penalty) == DMax(Zero, DSub(as.score, Lit(penalty)))

\* the if-chain with the XML test put before the fence test
FormatXmlFirst(str, asciiFinal, mdFinal) ==
  IF IsXml(str) THEN "xml"
  ELSE IF HasFence(str) THEN "code"
  ELSE IF IsHtml(str) THEN "html"
  ELSE IF IsJson(str) THEN "json"
  ELSE IF DGE(asciiFinal, Lit(350)) /\ DGT(asciiFinal, DAdd(mdFinal, Lit(100)))
       THEN "ascii"
  ELSE IF DGE(mdFinal, Lit(80)) /\ DGE(mdFinal, asciiFinal) THEN "markdown"
  ELSE "plain"

\* the if-chain with a tie of the two final scores left to plain
FormatStrictTie(str, asciiFinal, mdFinal) ==
  IF HasFence(str) THEN "code"
  ELSE IF IsXml(str) THEN "xml"
  ELSE IF IsHtml(str) THEN "html"
  ELSE IF IsJson(str) THEN "json"
  ELSE IF DGE(asciiFinal, Lit(350)) /\ DGT(asciiFinal, DAdd(mdFinal, Lit(100)))
       THEN "ascii"
  ELSE IF DGE(mdFinal, Lit(80)) /\ DGT(mdFinal, asciiFinal) THEN "markdown"
  ELSE "plain"

\* the if-chain with the ascii branch taken without the margin of 0.1
FormatNoMargin(str, asciiFinal, mdFinal) ==
  IF HasFence(str) THEN "code"
  ELSE IF IsXml(str) THEN "xml"
  ELSE IF IsHtml(str) THEN "html"
  ELSE IF IsJson(str) THEN "json"
  ELSE IF DGE(asciiFinal, Lit(350)) /\ DGT(asciiFinal, mdFinal) THEN "ascii"
  ELSE IF DGE(mdFinal, Lit(80)) /\ DGE(mdFinal, asciiFinal) THEN "markdown"
  ELSE "plain"

\* the if-chain that picks text_format
Format(str, asciiFinal, mdFinal) ==
  IF HasFence(str) THEN "code"
  ELSE IF IsXml(str) THEN "xml"
  ELSE IF IsHtml(str) THEN "html"
  ELSE IF IsJson(str) THEN "json"
  ELSE IF DGE(asciiFinal, Lit(350)) /\ DGT(asciiFinal, DAdd(mdFinal, Lit(100)))
       THEN "ascii"
  ELSE IF DGE(mdFinal, Lit(80)) /\ DGE(mdFinal, asciiFinal) THEN "markdown"
  ELSE "plain"

\* the object detectTextFormat returns after the scorers; scores in
\* thousandths
Decide(str, as, md, penalty) ==
  [text_format |-> Format(str, AsciiFinal(as, penalty), md.score),
   asciiArt |-> ToFixed3(AsciiFinal(as, penalty)),
   markdown |-> ToFixed3(md.score),
   reasons |-> [ascii |-> as.reasons, markdown |-> md.reasons,
                codePenaltyApplied |-> Some(penalty > 0)],
   stats |-> as.stats]

\* the call from const m on
AfterAscii(str, as, md) ==
  [result |-> Decide(str, as, md, codeLikePenalty(str)), li |-> md.li]

\* the call from const a on
NonEmpty(str, as) == AfterAscii(str, as, markdownScore(str, as.li))

\* one whole call: the object returned and the lastIndex values left
detectTextFormat(arg, li) ==
  IF IsEmptyInput(arg) THEN [result |-> EmptyResult, li |-> li]
  ELSE NonEmpty(arg.str, asciiArtScore(arg.str, li))

(***************************************************************************)
(* Inputs                                                                  *)
(***************************************************************************)

\* an argument that is a string
Str(q) == [type |-> "string", str |-> q]

\* arguments that are not strings, by their typeof: null, undefined, 42
NonStrings == {[type |-> t, str |-> <<>>] : t \in {"object", "undefined", "number"}}

\* the inputs of the test suite (src/src/index.js:289-689), in its order
TestTexts ==
  <<
    \* line 314: 'This is just a simple sentence.'
    <<84, 104, 105, 115, 32, 105, 115, 32, 106, 117, 115, 116, 32, 97, 32,
      115, 105, 109, 112, 108, 101, 32, 115, 101, 110, 116, 101, 110, 99,
      101, 46>>,
    \* line 320: 'This is a paragraph of plain text.\nIt has multiple lines but ...'
    <<84, 104, 105, 115, 32, 105, 115, 32, 97, 32, 112, 97, 114, 97, 103,
      114, 97, 112, 104, 32, 111, 102, 32, 112, 108, 97, 105, 110, 32, 116,
      101, 120, 116, 46, 10, 73, 116, 32, 104, 97, 115, 32, 109, 117, 108,
      116, 105, 112, 108, 101, 32, 108, 105, 110, 101, 115, 32, 98, 117,
      116, 32, 110, 111, 32, 115, 112, 101, 99, 105, 97, 108, 32, 102, 111,
      114, 109, 97, 116, 116, 105, 110, 103, 46, 10, 74, 117, 115, 116, 32,
      114, 101, 103, 117, 108, 97, 114, 32, 115, 101, 110, 116, 101, 110,
      99, 101, 115, 32, 119, 105, 116, 104, 32, 110, 111, 114, 109, 97, 108,
      32, 112, 117, 110, 99, 116, 117, 97, 116, 105, 111, 110, 46>>,
    \* line 330: '# Main Title\n## Subtitle\nSome content here'
    <<35, 32, 77, 97, 105, 110, 32, 84, 105, 116, 108, 101, 10, 35, 35, 32,
      83, 117, 98, 116, 105, 116, 108, 101, 10, 83, 111, 109, 101, 32, 99,
      111, 110, 116, 101, 110, 116, 32, 104, 101, 114, 101>>,
    \* line 340: '- Item one\n- Item two\n- Item three'
    <<45, 32, 73, 116, 101, 109, 32, 111, 110, 101, 10, 45, 32, 73, 116,
      101, 109, 32, 116, 119, 111, 10, 45, 32, 73, 116, 101, 109, 32, 116,
      104, 114, 101, 101>>,
    \* line 349: 'Check out [this link](https://example.com) for more info.'
    <<67, 104, 101, 99, 107, 32, 111, 117, 116, 32, 91, 116, 104, 105, 115,
      32, 108, 105, 110, 107, 93, 40, 104, 116, 116, 112, 115, 58, 47, 47,
      101, 120, 97, 109, 112, 108, 101, 46, 99, 111, 109, 41, 32, 102, 111,
      114, 32, 109, 111, 114, 101, 32, 105, 110, 102, 111, 46>>,
    \* line 356: 'Here is some code:\n```javascript\nconst x = 42;\n```'
    <<72, 101, 114, 101, 32, 105, 115, 32, 115, 111, 109, 101, 32, 99, 111,
      100, 101, 58, 10, 96, 96, 96, 106, 97, 118, 97, 115, 99, 114, 105,
      112, 116, 10, 99, 111, 110, 115, 116, 32, 120, 32, 61, 32, 52, 50, 59,
      10, 96, 96, 96>>,
    \* line 366: '> This is a quote\n> from someone'
    <<62, 32, 84, 104, 105, 115, 32, 105, 115, 32, 97, 32, 113, 117, 111,
      116, 101, 10, 62, 32, 102, 114, 111, 109, 32, 115, 111, 109, 101, 111,
      110, 101>>,
    \* line 374: 'Use the `console.log()` function to debug.'
    <<85, 115, 101, 32, 116, 104, 101, 32, 96, 99, 111, 110, 115, 111, 108,
      101, 46, 108, 111, 103, 40, 41, 96, 32, 102, 117, 110, 99, 116, 105,
      111, 110, 32, 116, 111, 32, 100, 101, 98, 117, 103, 46>>,
    \* line 381: 'This is *important* and **very important**.'
    <<84, 104, 105, 115, 32, 105, 115, 32, 42, 105, 109, 112, 111, 114, 116,
      97, 110, 116, 42, 32, 97, 110, 100, 32, 42, 42, 118, 101, 114, 121,
      32, 105, 109, 112, 111, 114, 116, 97, 110, 116, 42, 42, 46>>,
    \* line 388: '| Header 1 | Header 2 |\n| Cell 1   | Cell 2   |'
    <<124, 32, 72, 101, 97, 100, 101, 114, 32, 49, 32, 124, 32, 72, 101, 97,
      100, 101, 114, 32, 50, 32, 124, 10, 124, 32, 67, 101, 108, 108, 32,
      49, 32, 32, 32, 124, 32, 67, 101, 108, 108, 32, 50, 32, 32, 32, 124>>,
    \* line 396: 'Section 1\n---\nSection 2'
    <<83, 101, 99, 116, 105, 111, 110, 32, 49, 10, 45, 45, 45, 10, 83, 101,
      99, 116, 105, 111, 110, 32, 50>>,
    \* line 404: '---\ntitle: My Post\ndate: 2024-01-01\n---\n# Content'
    <<45, 45, 45, 10, 116, 105, 116, 108, 101, 58, 32, 77, 121, 32, 80, 111,
      115, 116, 10, 100, 97, 116, 101, 58, 32, 50, 48, 50, 52, 45, 48, 49,
      45, 48, 49, 10, 45, 45, 45, 10, 35, 32, 67, 111, 110, 116, 101, 110,
      116>>,
    \* line 417: '\u250c\u2500\u2500\u2500\u2500\u2500\u2500\u2500\u2500\u2500\u...'
    <<9484, 9472, 9472, 9472, 9472, 9472, 9472, 9472, 9472, 9472, 9472,
      9472, 9472, 9472, 9488, 10, 9474, 32, 32, 32, 72, 101, 108, 108, 111,
      32, 32, 32, 32, 32, 9474, 10, 9474, 32, 32, 32, 87, 111, 114, 108,
      100, 32, 32, 32, 32, 32, 9474, 10, 9492, 9472, 9472, 9472, 9472, 9472,
      9472, 9472, 9472, 9472, 9472, 9472, 9472, 9472, 9496>>,
    \* line 428: '+-------------+\n|   Title     |\n+-------------+\n|   Content...'
    <<43, 45, 45, 45, 45, 45, 45, 45, 45, 45, 45, 45, 45, 45, 43, 10, 124,
      32, 32, 32, 84, 105, 116, 108, 101, 32, 32, 32, 32, 32, 124, 10, 43,
      45, 45, 45, 45, 45, 45, 45, 45, 45, 45, 45, 45, 45, 43, 10, 124, 32,
      32, 32, 67, 111, 110, 116, 101, 110, 116, 32, 32, 32, 124, 10, 43, 45,
      45, 45, 45, 45, 45, 45, 45, 45, 45, 45, 45, 45, 43>>,
    \* line 440: '***********************\n*   Welcome Banner    *\n*   Version ...'
    <<42, 42, 42, 42, 42, 42, 42, 42, 42, 42, 42, 42, 42, 42, 42, 42, 42,
      42, 42, 42, 42, 42, 42, 10, 42, 32, 32, 32, 87, 101, 108, 99, 111,
      109, 101, 32, 66, 97, 110, 110, 101, 114, 32, 32, 32, 32, 42, 10, 42,
      32, 32, 32, 86, 101, 114, 115, 105, 111, 110, 32, 49, 46, 48, 32, 32,
      32, 32, 32, 32, 32, 42, 10, 42, 42, 42, 42, 42, 42, 42, 42, 42, 42,
      42, 42, 42, 42, 42, 42, 42, 42, 42, 42, 42, 42, 42>>,
    \* line 450: '========================================\n          IMPORTANT ...'
    <<61, 61, 61, 61, 61, 61, 61, 61, 61, 61, 61, 61, 61, 61, 61, 61, 61,
      61, 61, 61, 61, 61, 61, 61, 61, 61, 61, 61, 61, 61, 61, 61, 61, 61,
      61, 61, 61, 61, 61, 61, 10, 32, 32, 32, 32, 32, 32, 32, 32, 32, 32,
      73, 77, 80, 79, 82, 84, 65, 78, 84, 32, 78, 79, 84, 73, 67, 69, 10,
      61, 61, 61, 61, 61, 61, 61, 61, 61, 61, 61, 61, 61, 61, 61, 61, 61,
      61, 61, 61, 61, 61, 61, 61, 61, 61, 61, 61, 61, 61, 61, 61, 61, 61,
      61, 61, 61, 61, 61, 61>>,
    \* line 459: '\x1b[31m\u2554\u2550\u2550\u2550\u2550\u2550\u2550\u2550\u2550...'
    <<27, 91, 51, 49, 109, 9556, 9552, 9552, 9552, 9552, 9552, 9552, 9552,
      9552, 9552, 9552, 9552, 9552, 9552, 9552, 9552, 9552, 9552, 9552,
      9552, 9552, 9552, 9552, 9552, 9552, 9552, 9552, 9552, 9552, 9559, 27,
      91, 48, 109, 10, 27, 91, 51, 49, 109, 9553, 32, 32, 32, 65, 112, 112,
      108, 105, 99, 97, 116, 105, 111, 110, 32, 83, 116, 97, 114, 116, 101,
      100, 32, 32, 32, 32, 32, 32, 9553, 27, 91, 48, 109, 10, 27, 91, 51,
      49, 109, 9553, 32, 32, 32, 80, 111, 114, 116, 58, 32, 51, 48, 48, 48,
      32, 32, 32, 32, 32, 32, 32, 32, 32, 32, 32, 32, 32, 32, 9553, 27, 91,
      48, 109, 10, 27, 91, 51, 49, 109, 9562, 9552, 9552, 9552, 9552, 9552,
      9552, 9552, 9552, 9552, 9552, 9552, 9552, 9552, 9552, 9552, 9552,
      9552, 9552, 9552, 9552, 9552, 9552, 9552, 9552, 9552, 9552, 9552,
      9552, 9565, 27, 91, 48, 109>>,
    \* line 469: '\u2580\u2584\u2580\u2584\u2580\u2584\u2580\u2584\u2580\u2584\u...'
    <<9600, 9604, 9600, 9604, 9600, 9604, 9600, 9604, 9600, 9604, 9600,
      9604, 9600, 9604, 9600, 9604, 9600, 9604, 9600, 9604, 9600, 9604,
      9600, 9604, 9600, 9604, 9600, 9604, 9600, 9604, 10, 9608, 9608, 9608,
      9608, 9608, 9608, 9608, 9608, 9608, 9608, 9608, 9608, 9608, 9608,
      9608, 9608, 9608, 9608, 9608, 9608, 9608, 9608, 9608, 9608, 9608,
      9608, 9608, 9608, 9608, 10, 9600, 9604, 9600, 9604, 9600, 9604, 9600,
      9604, 9600, 9604, 9600, 9604, 9600, 9604, 9600, 9604, 9600, 9604,
      9600, 9604, 9600, 9604, 9600, 9604, 9600, 9604, 9600, 9604, 9600,
      9604, 10, 9608, 9608, 9608, 9608, 9608, 9608, 9608, 9608, 9608, 9608,
      9608, 9608, 9608, 9608, 9608, 9608, 9608, 9608, 9608, 9608, 9608,
      9608, 9608, 9608, 9608, 9608, 9608, 9608, 9608, 10, 9600, 9604, 9600,
      9604, 9600, 9604, 9600, 9604, 9600, 9604, 9600, 9604, 9600, 9604,
      9600, 9604, 9600, 9604, 9600, 9604, 9600, 9604, 9600, 9604, 9600,
      9604, 9600, 9604, 9600, 9604>>,
    \* line 480: '\u2800\u2800\u2800\u2800\u2800\u2800\u2800\u2800\u2800\u2800\u...'
    <<10240, 10240, 10240, 10240, 10240, 10240, 10240, 10240, 10240, 10240,
      10240, 10240, 10240, 10240, 10240, 10240, 10240, 10240, 10240, 10240,
      10240, 10240, 10240, 10240, 10240, 10240, 10240, 10240, 10240, 10240,
      10, 10240, 10240, 10240, 10240, 10240, 10240, 10240, 10240, 10240,
      10240, 10240, 10240, 10240, 10240, 10240, 10240, 10240, 10240, 10240,
      10240, 10240, 10240, 10240, 10240, 10240, 10240, 10240, 10240, 10240,
      10240, 10, 10240, 10240, 10240, 10240, 10240, 10240, 10240, 10240,
      10240, 10240, 10240, 10240, 10240, 10240, 10240, 10240, 10240, 10240,
      10240, 10240, 10240, 10240, 10240, 10240, 10240, 10240, 10240, 10240,
      10240, 10240, 10, 10240, 10240, 10240, 10240, 10240, 10240, 10240,
      10240, 10240, 10240, 10240, 10240, 10240, 10240, 10240, 10240, 10240,
      10240, 10240, 10240, 10240, 10240, 10240, 10240, 10240, 10240, 10240,
      10240, 10240, 10240>>,
    \* line 490: 'This is just regular text.\nIt has multiple lines.\nBut no spe...'
    <<84, 104, 105, 115, 32, 105, 115, 32, 106, 117, 115, 116, 32, 114, 101,
      103, 117, 108, 97, 114, 32, 116, 101, 120, 116, 46, 10, 73, 116, 32,
      104, 97, 115, 32, 109, 117, 108, 116, 105, 112, 108, 101, 32, 108,
      105, 110, 101, 115, 46, 10, 66, 117, 116, 32, 110, 111, 32, 115, 112,
      101, 99, 105, 97, 108, 32, 102, 111, 114, 109, 97, 116, 116, 105, 110,
      103, 32, 111, 114, 32, 97, 114, 116, 46>>,
    \* line 501: '```javascript\nfunction hello() {\n  console.log("Hello");\n}\...'
    <<96, 96, 96, 106, 97, 118, 97, 115, 99, 114, 105, 112, 116, 10, 102,
      117, 110, 99, 116, 105, 111, 110, 32, 104, 101, 108, 108, 111, 40, 41,
      32, 123, 10, 32, 32, 99, 111, 110, 115, 111, 108, 101, 46, 108, 111,
      103, 40, 34, 72, 101, 108, 108, 111, 34, 41, 59, 10, 125, 10, 96, 96,
      96>>,
    \* line 511: '~~~python\ndef hello():\n    print("Hello")\n~~~'
    <<126, 126, 126, 112, 121, 116, 104, 111, 110, 10, 100, 101, 102, 32,
      104, 101, 108, 108, 111, 40, 41, 58, 10, 32, 32, 32, 32, 112, 114,
      105, 110, 116, 40, 34, 72, 101, 108, 108, 111, 34, 41, 10, 126, 126,
      126>>,
    \* line 520: 'function test() {\n  const x = 1;\n  const y = 2;\n  return x ...'
    <<102, 117, 110, 99, 116, 105, 111, 110, 32, 116, 101, 115, 116, 40, 41,
      32, 123, 10, 32, 32, 99, 111, 110, 115, 116, 32, 120, 32, 61, 32, 49,
      59, 10, 32, 32, 99, 111, 110, 115, 116, 32, 121, 32, 61, 32, 50, 59,
      10, 32, 32, 114, 101, 116, 117, 114, 110, 32, 120, 32, 43, 32, 121,
      59, 10, 125>>,
    \* line 532: '<div class="container"><p>Hello World</p></div>'
    <<60, 100, 105, 118, 32, 99, 108, 97, 115, 115, 61, 34, 99, 111, 110,
      116, 97, 105, 110, 101, 114, 34, 62, 60, 112, 62, 72, 101, 108, 108,
      111, 32, 87, 111, 114, 108, 100, 60, 47, 112, 62, 60, 47, 100, 105,
      118, 62>>,
    \* line 538: '<img src="image.jpg" alt="Description" />'
    <<60, 105, 109, 103, 32, 115, 114, 99, 61, 34, 105, 109, 97, 103, 101,
      46, 106, 112, 103, 34, 32, 97, 108, 116, 61, 34, 68, 101, 115, 99,
      114, 105, 112, 116, 105, 111, 110, 34, 32, 47, 62>>,
    \* line 544: '<!DOCTYPE html>\n<html>\n<head><title>Test</title></head>\n<bo...'
    <<60, 33, 68, 79, 67, 84, 89, 80, 69, 32, 104, 116, 109, 108, 62, 10,
      60, 104, 116, 109, 108, 62, 10, 60, 104, 101, 97, 100, 62, 60, 116,
      105, 116, 108, 101, 62, 84, 101, 115, 116, 60, 47, 116, 105, 116, 108,
      101, 62, 60, 47, 104, 101, 97, 100, 62, 10, 60, 98, 111, 100, 121, 62,
      60, 104, 49, 62, 72, 101, 108, 108, 111, 60, 47, 104, 49, 62, 60, 47,
      98, 111, 100, 121, 62, 10, 60, 47, 104, 116, 109, 108, 62>>,
    \* line 556: '{"name": "John", "age": 30}'
    <<123, 34, 110, 97, 109, 101, 34, 58, 32, 34, 74, 111, 104, 110, 34, 44,
      32, 34, 97, 103, 101, 34, 58, 32, 51, 48, 125>>,
    \* line 562: '[1, 2, 3, 4, 5]'
    <<91, 49, 44, 32, 50, 44, 32, 51, 44, 32, 52, 44, 32, 53, 93>>,
    \* line 568: '{\n  "name": "John",\n  "age": 30,\n  "city": "New York"\n}'
    <<123, 10, 32, 32, 34, 110, 97, 109, 101, 34, 58, 32, 34, 74, 111, 104,
      110, 34, 44, 10, 32, 32, 34, 97, 103, 101, 34, 58, 32, 51, 48, 44, 10,
      32, 32, 34, 99, 105, 116, 121, 34, 58, 32, 34, 78, 101, 119, 32, 89,
      111, 114, 107, 34, 10, 125>>,
    \* line 580: '<?xml version="1.0" encoding="UTF-8"?><root><item>test</item><...'
    <<60, 63, 120, 109, 108, 32, 118, 101, 114, 115, 105, 111, 110, 61, 34,
      49, 46, 48, 34, 32, 101, 110, 99, 111, 100, 105, 110, 103, 61, 34, 85,
      84, 70, 45, 56, 34, 63, 62, 60, 114, 111, 111, 116, 62, 60, 105, 116,
      101, 109, 62, 116, 101, 115, 116, 60, 47, 105, 116, 101, 109, 62, 60,
      47, 114, 111, 111, 116, 62>>,
    \* line 587: '  <?xml version="1.0"?>\n<root>\n  <item>test</item>\n</root>'
    <<32, 32, 60, 63, 120, 109, 108, 32, 118, 101, 114, 115, 105, 111, 110,
      61, 34, 49, 46, 48, 34, 63, 62, 10, 60, 114, 111, 111, 116, 62, 10,
      32, 32, 60, 105, 116, 101, 109, 62, 116, 101, 115, 116, 60, 47, 105,
      116, 101, 109, 62, 10, 60, 47, 114, 111, 111, 116, 62>>,
    \* line 598: '\u250c\u2500\u2500\u2500\u2500\u2500\u2500\u2500\u2500\u2500\u...'
    <<9484, 9472, 9472, 9472, 9472, 9472, 9472, 9472, 9472, 9472, 9472,
      9472, 9472, 9472, 9472, 9472, 9472, 9488, 10, 9474, 32, 35, 32, 78,
      111, 116, 32, 77, 97, 114, 107, 100, 111, 119, 110, 32, 9474, 10,
      9474, 32, 45, 32, 74, 117, 115, 116, 32, 65, 83, 67, 73, 73, 32, 32,
      32, 9474, 10, 9492, 9472, 9472, 9472, 9472, 9472, 9472, 9472, 9472,
      9472, 9472, 9472, 9472, 9472, 9472, 9472, 9472, 9496>>,
    \* line 607: 'Hi'
    <<72, 105>>,
    \* line 613: 'Line 1\r\nLine 2\nLine 3\rLine 4'
    <<76, 105, 110, 101, 32, 49, 13, 10, 76, 105, 110, 101, 32, 50, 10, 76,
      105, 110, 101, 32, 51, 13, 76, 105, 110, 101, 32, 52>>,
    \* line 619: '# Title\nSome content here\nMore content'
    <<35, 32, 84, 105, 116, 108, 101, 10, 83, 111, 109, 101, 32, 99, 111,
      110, 116, 101, 110, 116, 32, 104, 101, 114, 101, 10, 77, 111, 114,
      101, 32, 99, 111, 110, 116, 101, 110, 116>>,
    \* line 630: '# Markdown Title'
    <<35, 32, 77, 97, 114, 107, 100, 111, 119, 110, 32, 84, 105, 116, 108,
      101>>,
    \* line 638: 'Some text'
    <<83, 111, 109, 101, 32, 116, 101, 120, 116>>,
    \* line 651: '# Project Name\n\n## Installation\n\n```bash\nnpm install\n```...'
    <<35, 32, 80, 114, 111, 106, 101, 99, 116, 32, 78, 97, 109, 101, 10, 10,
      35, 35, 32, 73, 110, 115, 116, 97, 108, 108, 97, 116, 105, 111, 110,
      10, 10, 96, 96, 96, 98, 97, 115, 104, 10, 110, 112, 109, 32, 105, 110,
      115, 116, 97, 108, 108, 10, 96, 96, 96, 10, 10, 35, 35, 32, 85, 115,
      97, 103, 101, 10, 10, 45, 32, 83, 116, 101, 112, 32, 49, 10, 45, 32,
      83, 116, 101, 112, 32, 50, 10, 10, 91, 68, 111, 99, 117, 109, 101,
      110, 116, 97, 116, 105, 111, 110, 93, 40, 104, 116, 116, 112, 115, 58,
      47, 47, 101, 120, 97, 109, 112, 108, 101, 46, 99, 111, 109, 41>>,
    \* line 670: '\u2554\u2550\u2550\u2550\u2550\u2550\u2550\u2550\u2550\u2550\u...'
    <<9556, 9552, 9552, 9552, 9552, 9552, 9552, 9552, 9552, 9552, 9552,
      9552, 9552, 9552, 9552, 9552, 9552, 9552, 9552, 9552, 9552, 9552,
      9552, 9552, 9552, 9552, 9552, 9552, 9552, 9559, 10, 9553, 32, 32, 32,
      65, 112, 112, 108, 105, 99, 97, 116, 105, 111, 110, 32, 83, 116, 97,
      114, 116, 101, 100, 32, 32, 32, 32, 32, 32, 9553, 10, 9553, 32, 32,
      32, 80, 111, 114, 116, 58, 32, 51, 48, 48, 48, 32, 32, 32, 32, 32, 32,
      32, 32, 32, 32, 32, 32, 32, 32, 9553, 10, 9562, 9552, 9552, 9552,
      9552, 9552, 9552, 9552, 9552, 9552, 9552, 9552, 9552, 9552, 9552,
      9552, 9552, 9552, 9552, 9552, 9552, 9552, 9552, 9552, 9552, 9552,
      9552, 9552, 9552, 9565>>,
    \* line 679: '{\n  "name": "my-package",\n  "version": "1.0.0",\n  "dependen...'
    <<123, 10, 32, 32, 34, 110, 97, 109, 101, 34, 58, 32, 34, 109, 121, 45,
      112, 97, 99, 107, 97, 103, 101, 34, 44, 10, 32, 32, 34, 118, 101, 114,
      115, 105, 111, 110, 34, 58, 32, 34, 49, 46, 48, 46, 48, 34, 44, 10,
      32, 32, 34, 100, 101, 112, 101, 110, 100, 101, 110, 99, 105, 101, 115,
      34, 58, 32, 123, 10, 32, 32, 32, 32, 34, 101, 120, 112, 114, 101, 115,
      115, 34, 58, 32, 34, 94, 52, 46, 49, 56, 46, 48, 34, 10, 32, 32, 125,
      10, 125>>
  >>

\* c repeated n times
Rep(c, n) == [k \in 1..n |-> c]

\* further inputs, each for the case its comment names
ExtraTexts ==
  <<
    \* the basic example of the README (src/examples/basic-usage.js:133): '# Hello World\n\nThis is a markdown document.'
    <<35, 32, 72, 101, 108, 108, 111, 32, 87, 111, 114, 108, 100, 10, 10,
      84, 104, 105, 115, 32, 105, 115, 32, 97, 32, 109, 97, 114, 107, 100,
      111, 119, 110, 32, 100, 111, 99, 117, 109, 101, 110, 116, 46>>,
    \* the malformed text of the JSON open question: '{not json at all'
    <<123, 110, 111, 116, 32, 106, 115, 111, 110, 32, 97, 116, 32, 97, 108,
      108>>,
    \* the same, closed: '{not json at all}'
    <<123, 110, 111, 116, 32, 106, 115, 111, 110, 32, 97, 116, 32, 97, 108,
      108, 125>>,
    \* closed by the other bracket: '{"a": 1]'
    <<123, 34, 97, 34, 58, 32, 49, 93>>,
    \* prose after the closing bracket: '{"a": 1}\nsee above'
    <<123, 34, 97, 34, 58, 32, 49, 125, 10, 115, 101, 101, 32, 97, 98, 111,
      118, 101>>,
    \* prose before the opening bracket: 'note:\n[1, 2]'
    <<110, 111, 116, 101, 58, 10, 91, 49, 44, 32, 50, 93>>,
    \* a score tie: symbol_heavy_low_alpha against blockquote and emphasis: '> *a*\n> *b*\n> *c*'
    <<62, 32, 42, 97, 42, 10, 62, 32, 42, 98, 42, 10, 62, 32, 42, 99, 42>>,
    \* every ASCII-art weight but ansi and trailing: '+=================\u2500+\n+=================\u2500+\n+=======...'
    <<43, 61, 61, 61, 61, 61, 61, 61, 61, 61, 61, 61, 61, 61, 61, 61, 61,
      61, 9472, 43, 10, 43, 61, 61, 61, 61, 61, 61, 61, 61, 61, 61, 61, 61,
      61, 61, 61, 61, 61, 9472, 43, 10, 43, 61, 61, 61, 61, 61, 61, 61, 61,
      61, 61, 61, 61, 61, 61, 61, 61, 61, 9472, 43>>,
    \* markdown weights above 1: '# T\n- a\n[a](b) ![a](b)\na|b\n> q\n``` ```'
    <<35, 32, 84, 10, 45, 32, 97, 10, 91, 97, 93, 40, 98, 41, 32, 33, 91,
      97, 93, 40, 98, 41, 10, 97, 124, 98, 10, 62, 32, 113, 10, 96, 96, 96,
      32, 96, 96, 96>>,
    \* a geometric shape in a text-heavy heading: '# abcdefghi \u25a0\nabcd\nabcd'
    <<35, 32, 97, 98, 99, 100, 101, 102, 103, 104, 105, 32, 9632, 10, 97,
      98, 99, 100, 10, 97, 98, 99, 100>>,
    \* an html tag beside a box-drawing character: 'a <br> \u2500'
    <<97, 32, 60, 98, 114, 62, 32, 9472>>,
    \* two code lines of three: 'x;\ny;\nz'
    <<120, 59, 10, 121, 59, 10, 122>>,
    \* tilde fence without its closing fence: '~~~\nab'
    <<126, 126, 126, 10, 97, 98>>,
    \* backtick fence closed by a tilde fence: '```\n~~~'
    <<96, 96, 96, 10, 126, 126, 126>>,
    \* lines of one repeated letter: 'aaaa\nxxxxx\nb'
    <<97, 97, 97, 97, 10, 120, 120, 120, 120, 120, 10, 98>>,
    \* a heading and two lines of 141 letters
    <<35, 32, 84, 10>> \o Rep(97, 141) \o <<10>> \o Rep(97, 141),
    \* a heading, a line of 140 letters and a line of 141
    <<35, 32, 84, 10>> \o Rep(97, 140) \o <<10>> \o Rep(97, 141),
    \* a heading, a list item and a box-drawing bar: '# T\n- a\n\u2500'
    <<35, 32, 84, 10, 45, 32, 97, 10, 9472>>,
    \* two lines of box-drawing characters only
    <<9484, 9472, 9472, 9472, 9472, 9472, 9488, 10,
      9492, 9472, 9472, 9472, 9472, 9472, 9496>>,
    \* a heading, a list item and two rows of five black squares
    <<35, 32, 84, 10, 45, 32, 97, 10>> \o Rep(9632, 5) \o <<10>> \o Rep(9632, 5)
  >>

\* the lines the composed inputs are made of
LineCatalog ==
  <<
    <<>>,  \* ''
    <<97, 98, 32, 99>>,  \* 'ab c'
    <<35, 32, 84>>,  \* '# T'
    <<96, 96, 96>>,  \* '```'
    <<60, 63, 88, 109, 108, 63, 62>>,  \* '<?Xml?>'
    <<60, 112, 62>>,  \* '<p>'
    <<123>>,  \* '{'
    <<125>>,  \* '}'
    <<32, 32, 120, 59>>,  \* '  x;'
    <<61, 61, 61, 61, 61>>   \* '====='
  >>

\* the line terminators a composed input is joined with: \n, \r\n, \r
Eols == {<<Ch.lf>>, <<Ch.cr, Ch.lf>>, <<Ch.cr>>}

MaxLines == 3

\* the texts of n catalog lines joined by eol
RECURSIVE Joined(_, _)
Joined(n, eol) ==
  IF n = 1 THEN {LineCatalog[k] : k \in 1..Len(LineCatalog)}
  ELSE {t \o eol \o LineCatalog[k] : t \in Joined(n - 1, eol), k \in 1..Len(LineCatalog)}

ComposedTexts == UNION {Joined(n, eol) : n \in 1..MaxLines, eol \in Eols}

MaxBoxWidth == 20

BoxWords == {<<72, 101, 108, 108, 111>>, <<87, 111, 114, 108, 100>>, <<72, 105>>}

\* a box-drawing rectangle of inner width w around the words u and v, each
\* cut or padded with spaces to the width
Box(w, u, v) ==
  LET fit(x) == SubSeq(x \o Rep(Ch.sp, w), 1, w)
  IN  <<9484>> \o Rep(9472, w) \o <<9488, Ch.lf>>
      \o <<9474>> \o fit(u) \o <<9474, Ch.lf>>
      \o <<9474>> \o fit(v) \o <<9474, Ch.lf>>
      \o <<9492>> \o Rep(9472, w) \o <<9496>>

BoxTexts == {Box(w, u, v) : w \in 1..MaxBoxWidth, u \in BoxWords, v \in BoxWords}

MaxPadLines == 48

\* three code lines followed by n empty lines
Padded(n) == <<120, 59, 10, 121, 59, 10, 122, 59>> \o Rep(Ch.lf, n)

PaddedTexts == {Padded(n) : n \in (MaxPadLines - 3)..MaxPadLines}

Texts ==
  {TestTexts[k] : k \in 1..Len(TestTexts)} \cup {ExtraTexts[k] : k \in 1..Len(ExtraTexts)}
    \cup ComposedTexts \cup BoxTexts \cup PaddedTexts

Inputs == NonStrings \cup {Str(q) : q \in Texts}

(***************************************************************************)
(* The state machine: one call of detectTextFormat, statement by statement *)
(***************************************************************************)

VARIABLES
  text,        \* the argument of the call
  pc,          \* the statement the call is at
  a,           \* const a = asciiArtScore(text)
  m,           \* const m = markdownScore(text)
  codePenalty, \* const codePenalty = codeLikePenalty(text), thousandths
  result,      \* the returned object
  lastIndex,   \* the lastIndex of each module-level RegExp object
  calls        \* the number of calls made so far

vars == <<text, pc, a, m, codePenalty, result, lastIndex, calls>>

\* the RegExp objects as the module creates them
FreshLastIndex == [re \in RegExpNames |-> 0]

Enter(arg) ==
  /\ text = arg
  /\ pc = "call"
  /\ a = Undefined
  /\ m = Undefined
  /\ codePenalty = Undefined
  /\ result = Undefined

Init == (\E arg \in Inputs : Enter(arg)) /\ lastIndex = FreshLastIndex /\ calls = 1

\* lines 240-247
ReturnEmpty ==
  /\ pc = "call"
  /\ IsEmptyInput(text)
  /\ result' = Some(EmptyResult)
  /\ pc' = "done"
  /\ UNCHANGED <<text, a, m, codePenalty, lastIndex, calls>>

\* line 249
ScoreAscii ==
  /\ pc = "call"
  /\ ~IsEmptyInput(text)
  /\ \E r \in {asciiArtScore(text.str, lastIndex)} :
       /\ a' = Some([score |-> r.score, reasons |-> r.reasons, stats |-> r.stats])
       /\ lastIndex' = r.li
  /\ pc' = "markdown"
  /\ UNCHANGED <<text, m, codePenalty, result, calls>>

\* line 250
ScoreMarkdown ==
  /\ pc = "markdown"
  /\ \E r \in {markdownScore(text.str, lastIndex)} :
       /\ m' = Some([score |-> r.score, reasons |-> r.reasons])
       /\ lastIndex' = r.li
  /\ pc' = "penalty"
  /\ UNCHANGED <<text, a, codePenalty, result, calls>>

\* line 251
CodePenalty ==
  /\ pc = "penalty"
  /\ codePenalty' = Some(codeLikePenalty(text.str))
  /\ pc' = "decide"
  /\ UNCHANGED <<text, a, m, result, lastIndex, calls>>

\* lines 253-286
Return ==
  /\ pc = "decide"
  /\ result' = Some(Decide(text.str, a[1], m[1], codePenalty[1]))
  /\ pc' = "done"
  /\ UNCHANGED <<text, a, m, codePenalty, lastIndex, calls>>

Next == ReturnEmpty \/ ScoreAscii \/ ScoreMarkdown \/ CodePenalty \/ Return

Spec == Init /\ [][Next]_vars

(***************************************************************************)
(* Call after call: the module-level RegExp objects outlive a call         *)
(***************************************************************************)

MaxCalls == 3

CallInputs ==
  NonStrings \cup {Str(TestTexts[k]) : k \in 1..Len(TestTexts)}
    \cup {Str(ExtraTexts[k]) : k \in 1..Len(ExtraTexts)}

InitCalls ==
  (\E arg \in CallInputs : Enter(arg)) /\ lastIndex = FreshLastIndex /\ calls = 1

\* the caller calls detectTextFormat again
Call ==
  /\ pc = "done"
  /\ calls < MaxCalls
  /\ \E arg \in CallInputs :
       /\ text' = arg
       /\ pc' = "call"
       /\ a' = Undefined
       /\ m' = Undefined
       /\ codePenalty' = Undefined
       /\ result' = Undefined
  /\ calls' = calls + 1
  /\ UNCHANGED lastIndex

NextCalls == Next \/ Call

SpecCalls == InitCalls /\ [][NextCalls]_vars

(***************************************************************************)
(* Properties                                                              *)
(***************************************************************************)

Returned == pc = "done"

Ret == result[1]

\* the argument is a string with a character that is not white space
NonEmptyText == text.type = "string" /\ \E i \in 1..Len(text.str) : ~IsSpace(text.str[i])

\* C1: for every input, string or not, the asciiArt and markdown scores of
\* the returned object lie in [0, 1] (0..1000 thousandths), also when the
\* summed weights exceed 1 or the penalties exceed the sum.
C1_ScoresInRange ==
  Returned => Ret.asciiArt \in 0..1000 /\ Ret.markdown \in 0..1000

\* a call returned whose six ASCII-art weights sum to 1.08
C1_Witness ==
  /\ Returned
  /\ NonEmptyText
  /\ Ret.asciiArt = 1000
  /\ Ret.reasons.ascii =
       <<"many_wide_lines", "consistent_width", "symbol_heavy_low_alpha",
         "long_same_char_runs", "border_like_lines", "unicode_art_chars">>

\* C2: an argument that is not a string, or a string of white space only,
\* returns plain with both scores 0, ascii reasons [empty], no markdown
\* reasons and no stats, and no scorer has run.
C2_EmptyInput ==
  Returned /\ ~NonEmptyText =>
    /\ Ret.text_format = "plain"
    /\ Ret.asciiArt = 0
    /\ Ret.markdown = 0
    /\ Ret.reasons.ascii = <<"empty">>
    /\ Ret.reasons.markdown = <<>>
    /\ Ret.stats = Undefined
    /\ a = Undefined /\ m = Undefined /\ codePenalty = Undefined

\* a call returned for a string of line breaks only
C2_Witness ==
  /\ Returned
  /\ text.type = "string"
  /\ Len(text.str) >= 2
  /\ \A i \in 1..Len(text.str) : IsLineTerminator(text.str[i])

\* the text holds an opening and, after it, a closing triple-backtick or
\* triple-tilde fence
FencedBlock(s) ==
  \E i \in 1..Len(s) : \E j \in (i + 3)..Len(s) :
    \/ HasAt(s, i, Fence) /\ HasAt(s, j, Fence)
    \/ HasAt(s, i, TildeFence) /\ HasAt(s, j, TildeFence)

\* what the text begins with after its leading white space
AfterLeadingSpace(s) ==
  LET k == CHOOSE n \in 0..Len(s) :
             /\ \A i \in 1..n : IsSpace(s[i])
             /\ n < Len(s) => ~IsSpace(s[n + 1])
  IN  SubSeq(s, k + 1, Len(s))

\* the text begins, after optional white space, with <?xml in any case
XmlStart(s) ==
  LET t == AfterLeadingSpace(s)
  IN  /\ Len(t) >= 5
      /\ t[1] = Ch.lt /\ t[2] = Ch.quest
      /\ t[3] \in {88, 120} /\ t[4] \in {77, 109} /\ t[5] \in {76, 108}

\* the text begins, after optional white space, with a <tag...> opening
TagStart(s) ==
  LET t == AfterLeadingSpace(s)
  IN  /\ Len(t) >= 3
      /\ t[1] = Ch.lt
      /\ t[2] # Ch.gt
      /\ \E g \in 3..Len(t) : t[g] = Ch.gt

\* C3: for a non-empty input the fast paths are decided in the order code,
\* xml, html, json, whatever the scores: code exactly when the text holds a
\* fenced block; otherwise xml when it begins with <?xml; otherwise html when
\* it begins with a tag opening; json only when none of the three matched.
C3_FastPathOrder ==
  Returned /\ NonEmptyText =>
    /\ Ret.text_format = "code" <=> FencedBlock(text.str)
    /\ ~FencedBlock(text.str) /\ XmlStart(text.str) => Ret.text_format = "xml"
    /\ ~FencedBlock(text.str) /\ ~XmlStart(text.str) /\ TagStart(text.str)
         => Ret.text_format = "html"
    /\ Ret.text_format = "json"
         => ~FencedBlock(text.str) /\ ~XmlStart(text.str) /\ ~TagStart(text.str)

\* a text that begins with <?xml and holds a fenced block returned code
C3_Witness ==
  /\ Returned
  /\ NonEmptyText
  /\ XmlStart(text.str)
  /\ FencedBlock(text.str)
  /\ Ret.text_format = "code"

\* the last character of the text that is not white space, 0 when none
LastInk(s) == MaxOf({0} \cup {i \in 1..Len(s) : ~IsSpace(s[i])})

\* some line starts, after optional white space, with { or [ and the whole
\* text ends, before its trailing white space, with the matching } or ]
MatchingWrap(s) ==
  \E i \in 1..Len(s) :
    /\ LineStart(s, i)
    /\ LET o == SpanEnd(SpaceAt(s), i) + 1
           e == LastInk(s)
       IN  /\ o < e
           /\ \/ s[o] = Ch.lbrace /\ s[e] = Ch.rbrace
              \/ s[o] = Ch.lbrack /\ s[e] = Ch.rbrack

\* none of the fenced, xml or html fast paths matches
NoMarkupFastPath ==
  ~FencedBlock(text.str) /\ ~XmlStart(text.str) /\ ~TagStart(text.str)

\* C4: when no fenced, xml or html fast path matches, the input is json
\* exactly when some line starts with { or [ and the overall text ends with
\* the matching closing bracket; text with further lines after the closing
\* bracket, or closed by the other bracket kind, is not json.
C4_JsonIffMatchingWrap ==
  Returned /\ NonEmptyText /\ NoMarkupFastPath =>
    (Ret.text_format = "json" <=> MatchingWrap(text.str))

\* the ASCII-art score after the code penalty, as a double
AsciiArtFinal == DMax(Zero, DSub(a[1].score, Lit(codePenalty[1])))

\* the unmodified markdown score, as a double
MarkdownFinal == m[1].score

\* none of the four fast paths matches
NoFastPath == NoMarkupFastPath /\ ~IsJson(text.str)

\* C5: when none of the four fast paths matches, the format is ascii iff
\* asciiArtFinal >= 0.35 and asciiArtFinal > markdownFinal + 0.1; otherwise
\* markdown iff markdownFinal >= 0.08 and markdownFinal >= asciiArtFinal, an
\* exact tie going to markdown; otherwise plain.
C5_ScoreDecision ==
  Returned /\ NonEmptyText /\ NoFastPath =>
    LET isAscii == /\ DGE(AsciiArtFinal, Lit(350))
                   /\ DGT(AsciiArtFinal, DAdd(MarkdownFinal, Lit(100)))
        isMd == /\ DGE(MarkdownFinal, Lit(80))
                /\ ~DLT(MarkdownFinal, AsciiArtFinal)
    IN  /\ Ret.text_format = "ascii" <=> isAscii
        /\ Ret.text_format = "markdown" <=> ~isAscii /\ isMd
        /\ Ret.text_format = "plain" <=> ~isAscii /\ ~isMd

\* a call returned markdown on an exact tie of two positive final scores
C5_Witness ==
  /\ Returned
  /\ NonEmptyText
  /\ NoFastPath
  /\ AsciiArtFinal = MarkdownFinal
  /\ DGT(MarkdownFinal, Zero)
  /\ Ret.text_format = "markdown"

\* the lines of the text that match at least one code hint
HintedLines(s) ==
  LET lines == SplitCRLF(s)
  IN  Cardinality({k \in 1..Len(lines) : IsCodeLine(lines[k])})

\* max(3, floor(totalLines x 0.08))
LeastHits(s) ==
  LET n == Len(SplitCRLF(s))
  IN  IF (8 * n) \div 100 > 3 THEN (8 * n) \div 100 ELSE 3

\* C6: codePenaltyApplied is true exactly when the number of lines matching
\* a code hint is >= max(3, floor(totalLines x 0.08)); when true the reported
\* asciiArt is the unpenalized score lowered by 0.15 and floored at 0, when
\* false it is the unpenalized score; the reported markdown score is the
\* markdown scorer's in both cases.
C6_CodePenalty ==
  Returned /\ NonEmptyText =>
    LET applied == Ret.reasons.codePenaltyApplied = Some(TRUE)
        unpenalized == ToFixed3(a[1].score)
    IN  /\ Ret.reasons.codePenaltyApplied \in {Some(TRUE), Some(FALSE)}
        /\ applied <=> HintedLines(text.str) >= LeastHits(text.str)
        /\ Ret.asciiArt =
             IF applied
             THEN IF unpenalized > 150 THEN unpenalized - 150 ELSE 0
             ELSE unpenalized
        /\ Ret.markdown = ToFixed3(m[1].score)

\* a call returned with exactly the least number of hinted lines, the
\* penalty applied and a positive score left
C6_Witness ==
  /\ Returned
  /\ NonEmptyText
  /\ HintedLines(text.str) = LeastHits(text.str)
  /\ Ret.reasons.codePenaltyApplied = Some(TRUE)
  /\ Ret.asciiArt > 0
  /\ Ret.asciiArt = ToFixed3(a[1].score) - 150

\* the result of a first call, with the RegExp objects as created
FirstCall(arg) == detectTextFormat(arg, FreshLastIndex).result

\* C7: detectTextFormat is a pure function of its argument across calls:
\* after any sequence of earlier calls a call returns what a first call on
\* the same input returns, and every call leaves the module-level patterns,
\* their matching positions included, as they were created.
C7_PureAcrossCalls ==
  /\ lastIndex = FreshLastIndex
  /\ Returned => Ret = FirstCall(text)

\* a later call returned for a text in which markdown patterns matched
C7_Witness ==
  /\ calls >= 2
  /\ Returned
  /\ NonEmptyText
  /\ Ret.reasons.markdown # <<>>

IsLetterOrSpace(c) == (c \in 65..90) \/ (c \in 97..122) \/ c = Ch.sp

\* the text is a box-drawing rectangle of four lines and inner width w: a
\* top border of corner, w horizontal bars, corner; two content lines of
\* vertical bar, w letters or spaces, vertical bar; the bottom border
IsBoxRect(s, w) ==
  /\ w >= 1
  /\ Len(s) = 4 * (w + 2) + 3
  /\ \A r \in 0..3 : \A c \in 1..(w + 3) :
       LET ch == At(s, r * (w + 3) + c)
       IN  IF c = w + 3 THEN r = 3 \/ ch = Ch.lf
           ELSE IF r = 0 THEN ch = (IF c = 1 THEN 9484 ELSE IF c = w + 2 THEN 9488 ELSE 9472)
           ELSE IF r = 3 THEN ch = (IF c = 1 THEN 9492 ELSE IF c = w + 2 THEN 9496 ELSE 9472)
           ELSE IF c \in {1, w + 2} THEN ch = 9474
           ELSE IsLetterOrSpace(ch)

\* the inner widths a text of this length could have as a rectangle
BoxWidths(s) == {w \in 1..Len(s) : IsBoxRect(s, w)}

BoxIsAscii ==
  /\ Ret.text_format = "ascii"
  /\ Ret.asciiArt > 400
  /\ \E k \in 1..Len(Ret.reasons.ascii) : Ret.reasons.ascii[k] = "unicode_art_chars"

\* C8 as stated: every 4-line box-drawing rectangle, whatever its width, is
\* classified ascii with asciiArt > 0.4 and unicode_art_chars among the
\* ascii reasons.
C8_EveryBoxAscii ==
  Returned /\ text.type = "string" /\ BoxWidths(text.str) # {} => BoxIsAscii

\* C8 as amended: every 4-line box-drawing rectangle whose borders hold at
\* least five horizontal bars is classified ascii with asciiArt >= 0.43 and
\* unicode_art_chars among the ascii reasons; a narrower one scores 0.28,
\* with unicode_art_chars its only reason, and is classified plain.
C8_WideBoxAscii ==
  Returned /\ text.type = "string" =>
    \A w \in BoxWidths(text.str) :
      IF w >= 5
      THEN BoxIsAscii /\ Ret.asciiArt >= 430
      ELSE /\ Ret.text_format = "plain"
           /\ Ret.asciiArt = 280
           /\ Ret.reasons.ascii = <<"unicode_art_chars">>

\* a rectangle with exactly five horizontal bars returned ascii at 0.43
C8_Witness ==
  /\ Returned
  /\ text.type = "string"
  /\ 5 \in BoxWidths(text.str)
  /\ Ret.text_format = "ascii"
  /\ Ret.asciiArt = 430

\* '# Hello World\n\nThis is a markdown document.'
ReadmeExample == Str(ExtraTexts[1])

ReadmeResultBut(asciiReasons) ==
  /\ Ret.text_format = "markdown"
  /\ Ret.asciiArt = 0
  /\ Ret.markdown = 180
  /\ Ret.reasons.ascii = asciiReasons
  /\ Ret.reasons.markdown = <<"heading">>
  /\ Ret.reasons.codePenaltyApplied = Some(FALSE)
  /\ Ret.stats # Undefined
  /\ Ret.stats[1].lines = 3

OpenBraceProse == Str(ExtraTexts[2])

\* '{not json at all}'
BraceWrappedProse == Str(ExtraTexts[3])

\* C10 as stated: the malformed text {not json at all, an opening brace
\* followed by prose, is classified json.
C10_OpenBraceProseJson ==
  Returned /\ text = OpenBraceProse => Ret.text_format = "json"

\* C10 as amended: the JSON fast path looks only at the bracket prefix and
\* suffix, so the malformed text {not json at all}, prose wrapped in braces,
\* is classified json; {not json at all, which has no closing bracket, does
\* not take the JSON fast path and is classified plain.
C10_BraceWrappedProseJson ==
  /\ Returned /\ text = BraceWrappedProse => Ret.text_format = "json"
  /\ Returned /\ text = OpenBraceProse => Ret.text_format = "plain"

\* the call on the brace-wrapped prose returned json
C10_Witness ==
  /\ Returned
  /\ text = BraceWrappedProse
  /\ Ret.text_format = "json"

\* asciiArtScore has just returned
AsciiScored == pc = "markdown"

\* the lines asciiArtScore counts
NormalLines == SplitLF(Normalize(text.str))

\* a box-drawing, block-element, Braille or geometric-shape character
IsArtChar(c) ==
  (c \in 9472..9599) \/ (c \in 9600..9631) \/ (c \in 10240..10495) \/ (c \in 9632..9727)

\* the weight of each condition, in thousandths
AsciiWeight(tag) ==
  CASE tag = "many_wide_lines" -> 150
    [] tag = "consistent_width" -> 200
    [] tag = "symbol_heavy_low_alpha" -> 200
    [] tag = "long_same_char_runs" -> 150
    [] tag = "border_like_lines" -> 100
    [] tag = "trailing_spaces" -> 70
    [] tag = "ansi_sequences" -> 120
    [] tag = "unicode_art_chars" -> 280
    [] tag = "very_text_heavy" -> 0 - 100

\* the tags of the conditions that fire on the text, in the order tested
FiredTags ==
  LET conds == Conditions(LineStats(NormalLines),
                          \E i \in 1..Len(text.str) : IsArtChar(text.str[i]),
                          \E i \in 1..Len(text.str) : ansiAt(text.str, i) # NoMatch)
      fired == SelectSeq(conds, LAMBDA c : c.on)
  IN  [k \in DOMAIN fired |-> fired[k].tag]

\* a sum of weights in thousandths clamped to [0, 1]
ClampThousandths(t) == IF t < 0 THEN 0 ELSE IF t > 1000 THEN 1000 ELSE t

\* C11: for a text of at least 3 lines the ASCII-art score equals the sum of
\* the weights of exactly the conditions that fire, clamped to [0, 1], and
\* the ascii reasons are exactly the tags of the fired conditions in the
\* fixed order, a tag being listed even when its weight is lost to the clamp.
C11_AsciiScoreIsWeightSum ==
  AsciiScored /\ Len(NormalLines) >= 3 =>
    /\ a[1].reasons = FiredTags
    /\ ToFixed3(a[1].score) =
         ClampThousandths(Sum([k \in DOMAIN a[1].reasons |-> AsciiWeight(a[1].reasons[k])]))

\* asciiArtScore returned 0 with very_text_heavy listed, its -0.10 lost to
\* the clamp
C11_Witness ==
  /\ AsciiScored
  /\ Len(NormalLines) >= 3
  /\ a[1].reasons = <<"very_text_heavy">>
  /\ a[1].score = Zero

\* the number of characters of t that are border characters
BorderCount(t) == Cardinality({k \in 1..Len(t) : t[k] \in BORDER_CHARS})

\* the line is border-like: its trimmed form has at least 3 characters and
\* either all are identical, or at least 80% are border characters and the
\* first and the last are
BorderLike(line) ==
  LET t == Trim(line)
  IN  /\ Len(t) >= 3
      /\ \/ \A k \in 1..Len(t) : t[k] = t[1]
         \/ /\ 10 * BorderCount(t) >= 8 * Len(t)
            /\ t[1] \in BORDER_CHARS
            /\ t[Len(t)] \in BORDER_CHARS

\* C12: a line counts as border-like exactly when its trimmed form has at
\* least 3 characters and either all its characters are identical, whatever
\* the character, or at least 80% are border characters and the first and
\* last are; so border_like_lines is among the reasons exactly when at least
\* 8% of the lines are border-like in this sense, 'aaaa' included.
C12_BorderLikeLines ==
  AsciiScored /\ Len(NormalLines) >= 3 =>
    LET borders == Cardinality({k \in 1..Len(NormalLines) : BorderLike(NormalLines[k])})
    IN  (\E k \in 1..Len(a[1].reasons) : a[1].reasons[k] = "border_like_lines")
          <=> 100 * borders >= 8 * Len(NormalLines)

\* markdownScore has returned
MdScored == pc = "penalty"

\* the text after line-ending normalisation
NormalText == Normalize(text.str)

\* the feature matches somewhere in the normalised text
Matches(name) ==
  \E i \in 1..(Len(NormalText) + 1) : MatchAt(name, NormalText, i) # NoMatch

\* the names of the matched features, in catalog order
MatchedNames == SelectSeq(MDNames, LAMBDA name : Matches(name))

\* the weight of a feature as the catalog of the specification gives it,
\* thousandths
CatalogWeight(name) ==
  CASE name = "heading" -> 180 [] name = "list" -> 180 [] name = "link" -> 180
    [] name = "tableRow" -> 180 [] name = "fenced" -> 180
    [] name = "image" -> 120 [] name = "blockquote" -> 120
    [] name = "setext" -> 120 [] name = "frontMatter" -> 120
    [] name = "inlineCode" -> 80 [] name = "hr" -> 80 [] name = "emphasis" -> 80
    [] name = "html" -> 50

\* at least 2 lines of the text exceed 140 characters
TwoLongLines ==
  Cardinality({k \in 1..Len(NormalLines) : Len(NormalLines[k]) > 140}) >= 2

\* a box-drawing, block-element or Braille codepoint is present
HasBoxBlockBraille ==
  \E i \in 1..Len(text.str) :
    \/ text.str[i] \in 9472..9599
    \/ text.str[i] \in 9600..9631
    \/ text.str[i] \in 10240..10495

\* the sum of the weights of the matched features less the penalties,
\* thousandths, before clamping
MarkdownSum ==
  Sum([k \in DOMAIN MatchedNames |-> CatalogWeight(MatchedNames[k])])
    - (IF TwoLongLines THEN 100 ELSE 0)
    - (IF HasBoxBlockBraille THEN 120 ELSE 0)

\* C13: the markdown score is the sum of the weights of the features that
\* match anywhere in the text, each counted once, minus 0.10 if at least 2
\* lines exceed 140 characters, minus 0.12 if a box-drawing, block-element
\* or Braille codepoint is present (a geometric shape alone costs nothing),
\* clamped to [0,1]; the reasons are the matched names in catalog order.
C13_MarkdownScoreIsWeightSum ==
  MdScored =>
    /\ m[1].reasons = MatchedNames
    /\ ToFixed3(m[1].score) = ClampThousandths(MarkdownSum)

\* a document with a matched feature and a geometric shape but no
\* box-drawing, block-element or Braille codepoint keeps its whole sum
C13_Witness ==
  /\ MdScored
  /\ m[1].reasons # <<>>
  /\ \E i \in 1..Len(text.str) : text.str[i] \in 9632..9727
  /\ ~HasBoxBlockBraille
  /\ ToFixed3(m[1].score) = MarkdownSum

\* C14: a non-empty text with fewer than 3 lines after line-ending
\* normalisation has ASCII-art score 0, ascii reasons exactly too_few_lines
\* and no stats, and is never classified ascii; a text with 3 or more lines
\* always carries stats.
C14_TooFewLines ==
  Returned /\ NonEmptyText =>
    IF Len(NormalLines) < 3
    THEN /\ Ret.asciiArt = 0
         /\ Ret.reasons.ascii = <<"too_few_lines">>
         /\ Ret.stats = Undefined
         /\ Ret.text_format # "ascii"
    ELSE /\ Ret.stats # Undefined
         /\ Ret.stats[1].lines = Len(NormalLines)

\* a two-line text of art characters only
C14_Witness ==
  /\ Returned
  /\ NonEmptyText
  /\ Len(NormalLines) = 2
  /\ \A i \in 1..Len(text.str) : IsArtChar(text.str[i]) \/ IsLineTerminator(text.str[i])
  /\ Ret.reasons.ascii = <<"too_few_lines">>
  /\ Ret.stats = Undefined

\* a final score has reached its threshold: markdown 0.08 or ASCII art 0.35
AtThreshold == DGE(MarkdownFinal, Lit(80)) \/ DGE(AsciiArtFinal, Lit(350))

\* C15: when no fast path matches, an input whose final markdown score is at
\* least 0.08 or whose final ASCII-art score is at least 0.35 is never
\* classified plain.
C15_NeverPlainAtThreshold ==
  Returned /\ NonEmptyText /\ NoFastPath /\ AtThreshold =>
    Ret.text_format # "plain"

\* C15 as the code has it: when no fast path matches, an input with a final
\* score at its threshold is classified plain exactly when its ASCII-art
\* score is above its markdown score and either below 0.35 or at most 0.1
\* above the markdown score; with markdown >= 0.08 and >= ASCII art, or
\* ASCII art >= 0.35 and more than 0.1 above markdown, it is never plain.
C15_PlainOnlyBetweenRules ==
  Returned /\ NonEmptyText /\ NoFastPath /\ AtThreshold =>
    (Ret.text_format = "plain" <=>
       /\ DLT(MarkdownFinal, AsciiArtFinal)
       /\ \/ DLT(AsciiArtFinal, Lit(350))
          \/ ~DGT(AsciiArtFinal, DAdd(MarkdownFinal, Lit(100))))

\* a call returned plain with both final scores above their thresholds
C15_Witness ==
  /\ Returned
  /\ NonEmptyText
  /\ NoFastPath
  /\ DGE(AsciiArtFinal, Lit(350))
  /\ DGE(MarkdownFinal, Lit(80))
  /\ Ret.text_format = "plain"

\* the lines joined by the line break eol
RECURSIVE JoinLines(_, _)
JoinLines(lines, eol) ==
  IF Len(lines) = 1 THEN lines[1]
  ELSE lines[1] \o eol \o JoinLines(Tail(lines), eol)

\* the text with every line break (CRLF, lone CR or LF) replaced by eol
WithEol(s, eol) == JoinLines(SplitLF(Normalize(s)), eol)

\* what a first call on the string s returns
ResultOn(s) == detectTextFormat(Str(s), FreshLastIndex).result

\* the two results have the same format, scores, reason lists and
\* codePenaltyApplied flag
SameVerdict(r, q) ==
  /\ r.text_format = q.text_format
  /\ r.asciiArt = q.asciiArt
  /\ r.markdown = q.markdown
  /\ r.reasons = q.reasons

\* C16: the result does not depend on the line-ending convention: replacing
\* every line break of the text by LF, by CRLF or by a lone CR yields the
\* same format, the same scores, the same reason lists and the same
\* codePenaltyApplied flag.
C16_LineEndingIndependent ==
  Returned /\ NonEmptyText =>
    \A eol \in Eols : SameVerdict(Ret, ResultOn(WithEol(text.str, eol)))

\* the LF and the CRLF form of the text get the same verdict
LfCrlfAgree ==
  Returned /\ NonEmptyText =>
    SameVerdict(ResultOn(WithEol(text.str, <<Ch.lf>>)),
                ResultOn(WithEol(text.str, <<Ch.cr, Ch.lf>>)))

=============================================================================
